---------------------------- MODULE Spec2Model ----------------------------
(***************************************************************************)
(* A model of xdg-chooser's association store (src/config/mimeapps.rs):    *)
(* the mimeapps.list files found on disk, their parsing and merging by     *)
(* load, the in-memory mutations, and the step-by-step write of save.      *)
(*                                                                         *)
(* Text is modelled as it is in the program: a string is a sequence of     *)
(* characters, a file is one string with its line breaks, a path is the    *)
(* string naming it.                                                       *)
(***************************************************************************)
EXTENDS Integers, Naturals, Sequences, FiniteSets, TLC

(***************************************************************************)
(* Characters and strings                                                  *)
(***************************************************************************)

\* The printable ASCII characters in code order: Printable[i] has code 31 + i
\* ("GRAVE" stands for the grave accent, code 96).
Printable ==
  <<" ","!","\"","#","$","%","&","'","(",")","*","+",",","-",".","/",
    "0","1","2","3","4","5","6","7","8","9",":",";","<","=",">","?","@",
    "A","B","C","D","E","F","G","H","I","J","K","L","M","N","O","P","Q",
    "R","S","T","U","V","W","X","Y","Z","[","\\","]","^","_","GRAVE",
    "a","b","c","d","e","f","g","h","i","j","k","l","m","n","o","p","q",
    "r","s","t","u","v","w","x","y","z","{","|","}","~">>

\* The i-th character of a string.
Char(s, i) == SubSeq(s, i, i)

\* The byte value of a character (the order str's Ord compares by).
CharCode(c) ==
  IF c = "\t" THEN 9
  ELSE IF c = "\n" THEN 10
  ELSE IF c = "\r" THEN 13
  ELSE 31 + (CHOOSE i \in 1..Len(Printable) : Printable[i] = c)

\* char::is_ascii_alphanumeric
IsAsciiAlphanumeric(c) ==
  LET n == CharCode(c)
  IN  \/ (n >= 48 /\ n <= 57)
      \/ (n >= 65 /\ n <= 90)
      \/ (n >= 97 /\ n <= 122)

\* char::is_whitespace, for the characters the model's text holds.
IsWhitespace(c) == c \in {" ", "\t", "\n", "\r"}

\* char::to_lowercase on ASCII.
CharToLower(c) ==
  LET n == CharCode(c)
  IN  IF n >= 65 /\ n <= 90 THEN Printable[n + 32 - 31] ELSE c

RECURSIVE ToLowercase(_)
\* str::to_lowercase
ToLowercase(s) ==
  IF s = "" THEN "" ELSE CharToLower(Head(s)) \o ToLowercase(Tail(s))

\* str::contains(char)
Contains(s, c) == \E i \in 1..Len(s) : Char(s, i) = c

\* str::starts_with / str::ends_with
StartsWith(s, p) == Len(s) >= Len(p) /\ SubSeq(s, 1, Len(p)) = p

EndsWith(s, p) ==
  Len(s) >= Len(p) /\ SubSeq(s, Len(s) - Len(p) + 1, Len(s)) = p

RECURSIVE TrimStart(_)
\* str::trim_start
TrimStart(s) ==
  IF s # "" /\ IsWhitespace(Head(s)) THEN TrimStart(Tail(s)) ELSE s

RECURSIVE TrimEnd(_)
\* str::trim_end
TrimEnd(s) ==
  IF s # "" /\ IsWhitespace(Char(s, Len(s)))
    THEN TrimEnd(SubSeq(s, 1, Len(s) - 1))
    ELSE s

\* str::trim
Trim(s) == TrimEnd(TrimStart(s))

\* The index of the first c in s, 0 when there is none.
Find(s, c) ==
  IF Contains(s, c)
    THEN CHOOSE i \in 1..Len(s) :
           Char(s, i) = c /\ \A j \in 1..(i - 1) : Char(s, j) # c
    ELSE 0

\* The index of the last c in s, 0 when there is none.
RFind(s, c) ==
  IF Contains(s, c)
    THEN CHOOSE i \in 1..Len(s) :
           Char(s, i) = c /\ \A j \in (i + 1)..Len(s) : Char(s, j) # c
    ELSE 0

RECURSIVE Split(_, _)
\* str::split(char): the pieces between the separators, empty ones included;
\* the empty string splits into one empty piece.
Split(s, c) ==
  LET i == Find(s, c)
  IN  IF i = 0
        THEN <<s>>
        ELSE <<SubSeq(s, 1, i - 1)>> \o Split(SubSeq(s, i + 1, Len(s)), c)

\* BufRead::lines: the text cut at each "\n", a final "\r" of a line dropped,
\* and no last empty line after a closing "\n".
Lines(text) ==
  LET raw  == Split(text, "\n")
      cut  == IF raw[Len(raw)] = "" THEN SubSeq(raw, 1, Len(raw) - 1) ELSE raw
      strip(l) == IF l # "" /\ Char(l, Len(l)) = "\r"
                    THEN SubSeq(l, 1, Len(l) - 1)
                    ELSE l
  IN  [i \in 1..Len(cut) |-> strip(cut[i])]

RECURSIVE Join(_, _)
\* [String]::join(sep)
Join(list, sep) ==
  IF list = <<>> THEN ""
  ELSE IF Len(list) = 1 THEN list[1]
  ELSE list[1] \o sep \o Join(Tail(list), sep)

RECURSIVE StrLess(_, _)
\* a < b for str: byte-wise lexicographic order.
StrLess(a, b) ==
  IF b = "" THEN FALSE
  ELSE IF a = "" THEN TRUE
  ELSE IF Head(a) = Head(b) THEN StrLess(Tail(a), Tail(b))
  ELSE CharCode(Head(a)) < CharCode(Head(b))

\* Vec::contains
VecContains(v, x) == \E i \in 1..Len(v) : v[i] = x

\* The set of a list's elements.
Elems(v) == {v[i] : i \in 1..Len(v)}

(***************************************************************************)
(* Maps (HashMap<String, Vec<String>>) as functions on their key sets      *)
(***************************************************************************)

EmptyMap == <<>>

\* HashMap::insert
MapInsert(m, k, v) ==
  [key \in (DOMAIN m) \cup {k} |-> IF key = k THEN v ELSE m[key]]

\* HashMap::remove
MapRemove(m, k) == [key \in (DOMAIN m) \ {k} |-> m[key]]

\* HashMap::get(..).cloned().unwrap_or_default(): the list under k, empty when
\* there is none (what entry(k).or_default() starts from).
MapGetOrDefault(m, k) == IF k \in DOMAIN m THEN m[k] ELSE <<>>

(***************************************************************************)
(* The texts the program compares with                                     *)
(***************************************************************************)

DefaultApplications == "Default Applications"

AddedAssociations == "Added Associations"

RemovedAssociations == "Removed Associations"

DesktopSuffix == ".desktop"

MimeappsList == "mimeapps.list"

DesktopMimeappsSuffix == "-mimeapps.list"

DataMimeappsList == "applications/mimeapps.list"

TmpExtension == "tmp"

(***************************************************************************)
(* parse_file                                                              *)
(***************************************************************************)

\* ParsedMimeApps::default()
EmptyParsed ==
  [default_apps |-> EmptyMap,
   added_associations |-> EmptyMap,
   removed_associations |-> EmptyMap]

RECURSIVE DropEmpty(_)
\* .filter(|s| !s.is_empty())
DropEmpty(pieces) ==
  IF pieces = <<>> THEN <<>>
  ELSE IF Head(pieces) = "" THEN DropEmpty(Tail(pieces))
  ELSE <<Head(pieces)>> \o DropEmpty(Tail(pieces))

RECURSIVE TrimEach(_)
\* .map(|s| s.trim().to_string())
TrimEach(pieces) ==
  IF pieces = <<>> THEN <<>>
  ELSE <<Trim(Head(pieces))>> \o TrimEach(Tail(pieces))

\* The application list of a value: split on ';', the empty pieces dropped,
\* then each piece trimmed (in that order).
ParseApps(value) == TrimEach(DropEmpty(Split(value, ";")))

\* One line of the file: the section and the record after it.
ParseLine(line, st) ==
  LET trimmed == Trim(line)
      eq      == Find(trimmed, "=")
      mime    == Trim(SubSeq(trimmed, 1, eq - 1))
      apps    == ParseApps(SubSeq(trimmed, eq + 1, Len(trimmed)))
      p       == st.parsed
  IN  IF trimmed = "" \/ Head(trimmed) = "#"
        THEN st
      ELSE IF Head(trimmed) = "[" /\ Char(trimmed, Len(trimmed)) = "]"
        THEN [st EXCEPT !.section = SubSeq(trimmed, 2, Len(trimmed) - 1)]
      ELSE IF eq = 0 \/ apps = <<>>
        THEN st
      ELSE IF st.section = DefaultApplications
        THEN [st EXCEPT !.parsed.default_apps = MapInsert(p.default_apps, mime, apps)]
      ELSE IF st.section = AddedAssociations
        THEN [st EXCEPT !.parsed.added_associations =
                           MapInsert(p.added_associations, mime, apps)]
      ELSE IF st.section = RemovedAssociations
        THEN [st EXCEPT !.parsed.removed_associations =
                           MapInsert(p.removed_associations, mime, apps)]
      ELSE st

RECURSIVE ParseLines(_, _)
\* The loop over reader.lines().
ParseLines(lines, st) ==
  IF lines = <<>> THEN st ELSE ParseLines(Tail(lines), ParseLine(Head(lines), st))

\* The record of a text.
ParseText(text) ==
  ParseLines(Lines(text), [section |-> "", parsed |-> EmptyParsed]).parsed

(***************************************************************************)
(* Paths and the file system                                               *)
(***************************************************************************)

\* The file system maps the path of each existing file to whether it can be
\* opened and its text.

\* PathBuf::join(name) for a relative name.
PathJoin(dir, name) == dir \o "/" \o name

\* Path::parent: the path up to its last '/'.
Parent(path) == SubSeq(path, 1, RFind(path, "/") - 1)

\* Path::file_name: what follows the last '/'.
FileName(path) == SubSeq(path, RFind(path, "/") + 1, Len(path))

\* Path::exists
Exists(f, path) == path \in DOMAIN f

\* Path::with_extension: the file name up to its last '.', then the new
\* extension (a name with no '.' past its first character is all stem).
WithExtension(path, ext) ==
  LET name == FileName(path)
      dot  == RFind(name, ".")
      stem == IF dot > 1 THEN SubSeq(name, 1, dot - 1) ELSE name
  IN  PathJoin(Parent(path), stem \o "." \o ext)

\* parse_file: Ok(empty) for a missing file, Err for one that cannot be
\* opened, Ok(record) otherwise.
ParseFile(f, path) ==
  IF ~Exists(f, path) THEN [ok |-> TRUE, parsed |-> EmptyParsed]
  ELSE IF ~f[path].readable THEN [ok |-> FALSE, parsed |-> EmptyParsed]
  ELSE [ok |-> TRUE, parsed |-> ParseText(f[path].text)]

(***************************************************************************)
(* merge_from                                                              *)
(***************************************************************************)

\* The loop pushing every app, listed already or not.
PushAll(entry, apps) == entry \o apps

RECURSIVE PushMissing(_, _)
\* for app in apps { if !entry.contains(&app) { entry.push(app) } }
PushMissing(entry, apps) ==
  IF apps = <<>> THEN entry
  ELSE IF VecContains(entry, Head(apps)) THEN PushMissing(entry, Tail(apps))
  ELSE PushMissing(Append(entry, Head(apps)), Tail(apps))

\* for (mime, apps) in other.default_apps { self.default_apps.insert(..) }
MergeDefaults(mine, other) ==
  [mime \in (DOMAIN mine) \cup (DOMAIN other) |->
     IF mime \in DOMAIN other THEN other[mime] ELSE mine[mime]]

\* The lists merged the way the defaults are: the later file's list replaces
\* the earlier one.
MergeListsReplacing(mine, other) ==
  [mime \in (DOMAIN mine) \cup (DOMAIN other) |->
     IF mime \in DOMAIN other THEN other[mime] ELSE mine[mime]]

\* The merge of the added (and of the removed) lists.
MergeLists(mine, other) ==
  [mime \in (DOMAIN mine) \cup (DOMAIN other) |->
     IF mime \in DOMAIN other
       THEN PushMissing(MapGetOrDefault(mine, mime), other[mime])
       ELSE mine[mime]]

\* merge_from(self, other)
MergeFrom(self, other) ==
  [self EXCEPT
     !.default_apps = MergeDefaults(self.default_apps, other.default_apps),
     !.added_associations =
        MergeLists(self.added_associations, other.added_associations),
     !.removed_associations =
        MergeLists(self.removed_associations, other.removed_associations)]

(***************************************************************************)
(* load                                                                    *)
(***************************************************************************)

\* xdg_dirs.get_config_home() and get_data_home()
ConfigHome == "/home/u/.config"

DataHome == "/home/u/.local/share"

\* XDG_CONFIG_DIRS and XDG_DATA_DIRS, at the defaults load falls back to.
ConfigDirsVar == "/etc/xdg"

DataDirsVar == "/usr/local/share:/usr/share"

\* config_dirs.split(':') and data_dirs.split(':')
ConfigDirs == Split(ConfigDirsVar, ":")

DataDirs == Split(DataDirsVar, ":")

\* config_home.join("mimeapps.list")
UserConfig == PathJoin(ConfigHome, MimeappsList)

\* dir.join(format!("{}-mimeapps.list", desktop_lower))
DesktopFile(dir, desktop_lower) ==
  PathJoin(dir, desktop_lower \o DesktopMimeappsSuffix)

\* dir.join("applications/mimeapps.list")
DataFile(dir) == PathJoin(dir, DataMimeappsList)

\* The candidate files in priority order, highest first, before the
\* exists() checks.
CandidatePaths(desktop) ==
  LET desktop_lower == ToLowercase(desktop)
      own(dir) == IF desktop_lower # ""
                    THEN <<DesktopFile(dir, desktop_lower)>>
                    ELSE <<>>
      system[i \in 0..Len(ConfigDirs)] ==
        IF i = 0 THEN <<>>
        ELSE system[i - 1] \o
             (IF ConfigDirs[i] = "" THEN <<>>
              ELSE own(ConfigDirs[i]) \o <<PathJoin(ConfigDirs[i], MimeappsList)>>)
      data[i \in 0..Len(DataDirs)] ==
        IF i = 0 THEN <<>>
        ELSE data[i - 1] \o
             (IF DataDirs[i] = "" THEN <<>> ELSE <<DataFile(DataDirs[i])>>)
  IN  own(ConfigHome) \o <<UserConfig>> \o system[Len(ConfigDirs)]
        \o <<DataFile(DataHome)>> \o data[Len(DataDirs)]

\* config_paths: the candidates that exist, in priority order.
ConfigPaths(f, desktop) ==
  SelectSeq(CandidatePaths(desktop), LAMBDA p : Exists(f, p))

RECURSIVE MergeAllForward(_, _, _)
\* The merge loop without rev(): the highest-priority file merged first.
MergeAllForward(f, paths, merged) ==
  IF paths = <<>> THEN merged
  ELSE LET r == ParseFile(f, Head(paths))
       IN  MergeAllForward(f, Tail(paths),
                           IF r.ok THEN MergeFrom(merged, r.parsed) ELSE merged)

RECURSIVE MergeAllStopping(_, _, _)
\* The merge loop giving up at the first file that fails to parse.
MergeAllStopping(f, paths, merged) ==
  IF paths = <<>> THEN merged
  ELSE LET path == paths[Len(paths)]
           r    == ParseFile(f, path)
       IN  IF r.ok
             THEN MergeAllStopping(f, SubSeq(paths, 1, Len(paths) - 1),
                                   MergeFrom(merged, r.parsed))
             ELSE merged

RECURSIVE MergeAll(_, _, _)
\* for path in config_paths.into_iter().rev(): the files merged from the
\* last of `paths` to the first, a file that fails to parse skipped.
MergeAll(f, paths, merged) ==
  IF paths = <<>> THEN merged
  ELSE LET path == paths[Len(paths)]
           r    == ParseFile(f, path)
       IN  MergeAll(f, SubSeq(paths, 1, Len(paths) - 1),
                    IF r.ok THEN MergeFrom(merged, r.parsed) ELSE merged)

\* MimeAppsConfig { path: user_config, ..Default::default() }
NewConfig ==
  [default_apps |-> EmptyMap,
   added_associations |-> EmptyMap,
   removed_associations |-> EmptyMap,
   path |-> UserConfig]

\* load() taking the highest-priority file found as the file to write.
LoadWritingFirstFound(f, desktop) ==
  LET paths == ConfigPaths(f, desktop)
  IN  MergeAll(f, paths,
               [NewConfig EXCEPT
                  !.path = IF paths = <<>> THEN UserConfig ELSE paths[1]])

\* load()
Load(f, desktop) == MergeAll(f, ConfigPaths(f, desktop), NewConfig)

(***************************************************************************)
(* Validation, queries and mutations                                       *)
(***************************************************************************)

\* validate_mime_type looking at the first two parts only (no check of
\* parts.len()).
ValidateMimeTypeFirstTwoParts(mime) ==
  /\ Contains(mime, "/")
  /\ LET parts == Split(mime, "/")
     IN  /\ parts[1] # ""
         /\ parts[2] # ""
         /\ \A k \in 1..2 : \A i \in 1..Len(parts[k]) :
              \/ IsAsciiAlphanumeric(Char(parts[k], i))
              \/ Char(parts[k], i) \in {"-", ".", "+"}

\* validate_app_id without its length check.
ValidateAppIdSuffixOnly(app_id) == EndsWith(app_id, DesktopSuffix)

\* validate_mime_type(mime).is_ok()
ValidateMimeType(mime) ==
  /\ Contains(mime, "/")
  /\ LET parts == Split(mime, "/")
     IN  /\ Len(parts) = 2
         /\ parts[1] # ""
         /\ parts[2] # ""
         /\ \A k \in 1..2 : \A i \in 1..Len(parts[k]) :
              \/ IsAsciiAlphanumeric(Char(parts[k], i))
              \/ Char(parts[k], i) \in {"-", ".", "+"}

\* validate_app_id(app_id).is_ok()
ValidateAppId(app_id) ==
  /\ EndsWith(app_id, DesktopSuffix)
  /\ ~(Len(app_id) <= 8)

\* Option<&str>
None == [some |-> FALSE]

Some(v) == [some |-> TRUE, value |-> v]

\* get_default
GetDefault(config, mime) ==
  IF mime \in DOMAIN config.default_apps /\ config.default_apps[mime] # <<>>
    THEN Some(config.default_apps[mime][1])
    ELSE None

\* associations.retain(|a| a != app_id)
RetainNot(v, app_id) == SelectSeq(v, LAMBDA a : a # app_id)

\* PutFirst without the retain: an id already listed stays where it was too.
PutFirstKeepingOld(associations, app_id) == <<app_id>> \o associations

\* The added list after set_default: app_id taken out and put first.
PutFirst(associations, app_id) == <<app_id>> \o RetainNot(associations, app_id)

\* set_default keeping a default that is already configured (or_insert for
\* insert).
SetDefaultIfAbsent(config, mime, app_id) ==
  IF ~ValidateMimeType(mime) \/ ~ValidateAppId(app_id)
    THEN [ok |-> FALSE, config |-> config]
    ELSE [ok |-> TRUE,
          config |->
            [config EXCEPT
               !.default_apps =
                  IF mime \in DOMAIN config.default_apps
                    THEN config.default_apps
                    ELSE MapInsert(config.default_apps, mime, <<app_id>>),
               !.added_associations =
                  MapInsert(config.added_associations, mime,
                            PutFirst(MapGetOrDefault(config.added_associations, mime),
                                     app_id))]]

\* set_default checking the application id only after the default is stored.
SetDefaultLateCheck(config, mime, app_id) ==
  IF ~ValidateMimeType(mime)
    THEN [ok |-> FALSE, config |-> config]
    ELSE LET stored == [config EXCEPT
                          !.default_apps =
                             MapInsert(config.default_apps, mime, <<app_id>>)]
         IN  IF ~ValidateAppId(app_id)
               THEN [ok |-> FALSE, config |-> stored]
               ELSE [ok |-> TRUE,
                     config |->
                       [stored EXCEPT
                          !.added_associations =
                             MapInsert(config.added_associations, mime,
                                       PutFirst(MapGetOrDefault(config.added_associations,
                                                                mime),
                                                app_id))]]

\* set_default: the result and the store after it.
SetDefault(config, mime, app_id) ==
  IF ~ValidateMimeType(mime) \/ ~ValidateAppId(app_id)
    THEN [ok |-> FALSE, config |-> config]
    ELSE [ok |-> TRUE,
          config |->
            [config EXCEPT
               !.default_apps = MapInsert(config.default_apps, mime, <<app_id>>),
               !.added_associations =
                  MapInsert(config.added_associations, mime,
                            PutFirst(MapGetOrDefault(config.added_associations, mime),
                                     app_id))]]

RECURSIVE SetDefaultForMimesSkipping(_, _, _)
\* set_default_for_mimes going on to the next MIME type after a failure.
SetDefaultForMimesSkipping(config, mimes, app_id) ==
  IF mimes = <<>> THEN [ok |-> TRUE, config |-> config]
  ELSE LET r    == SetDefault(config, Head(mimes), app_id)
           rest == SetDefaultForMimesSkipping(r.config, Tail(mimes), app_id)
       IN  [ok |-> r.ok /\ rest.ok, config |-> rest.config]

RECURSIVE SetDefaultForMimes(_, _, _)
\* set_default_for_mimes: set_default on each MIME type in order, returning at
\* the first error with the earlier ones done.
SetDefaultForMimes(config, mimes, app_id) ==
  IF mimes = <<>> THEN [ok |-> TRUE, config |-> config]
  ELSE LET r == SetDefault(config, Head(mimes), app_id)
       IN  IF r.ok THEN SetDefaultForMimes(r.config, Tail(mimes), app_id)
           ELSE [ok |-> FALSE, config |-> r.config]

\* remove_default
RemoveDefault(config, mime) ==
  [config EXCEPT !.default_apps = MapRemove(config.default_apps, mime)]

\* get_associations without its last step.
FilterNothing(apps, config, mime) == apps

\* The filter applied last in get_associations.
FilterRemoved(apps, config, mime) ==
  IF mime \in DOMAIN config.removed_associations
    THEN SelectSeq(apps, LAMBDA app : ~VecContains(config.removed_associations[mime], app))
    ELSE apps

\* get_associations
GetAssociations(config, mime) ==
  LET defaults == PushMissing(<<>>, MapGetOrDefault(config.default_apps, mime))
      both     == PushMissing(defaults, MapGetOrDefault(config.added_associations, mime))
  IN  FilterRemoved(both, config, mime)

(***************************************************************************)
(* save: the text written                                                  *)
(***************************************************************************)

RECURSIVE SortedKeys(_)
\* sorted.sort_by_key(|(k, _)| k.as_str()): the keys in ascending order.
SortedKeys(keys) ==
  IF keys = {} THEN <<>>
  ELSE LET least == CHOOSE k \in keys : \A o \in keys \ {k} : StrLess(k, o)
       IN  <<least>> \o SortedKeys(keys \ {least})

RECURSIVE SectionLines(_, _, _)
\* The lines of one section: "{mime}={apps joined by ';'}{tail}\n" per key.
SectionLines(m, keys, tail) ==
  IF keys = <<>> THEN ""
  ELSE Head(keys) \o "=" \o Join(m[Head(keys)], ";") \o tail \o "\n"
         \o SectionLines(m, Tail(keys), tail)

\* The text save() builds before it touches the disk.
SaveContent(config) ==
  LET defaults ==
        IF DOMAIN config.default_apps # {}
          THEN "[Default Applications]\n"
                 \o SectionLines(config.default_apps,
                                 SortedKeys(DOMAIN config.default_apps), "")
                 \o "\n"
          ELSE ""
      added ==
        IF DOMAIN config.added_associations # {}
          THEN "[Added Associations]\n"
                 \o SectionLines(config.added_associations,
                                 SortedKeys(DOMAIN config.added_associations), ";")
                 \o "\n"
          ELSE ""
      removed ==
        IF DOMAIN config.removed_associations # {}
          THEN "[Removed Associations]\n"
                 \o SectionLines(config.removed_associations,
                                 SortedKeys(DOMAIN config.removed_associations), ";")
          ELSE ""
  IN  defaults \o added \o removed

\* The text written in place, with no temporary file.
TempPathInPlace(path) == path

\* self.path.with_extension("tmp")
TempPath(path) == WithExtension(path, TmpExtension)

\* A file that can be read, holding `text`.
TextFile(text) == [readable |-> TRUE, text |-> text]

\* The file system with `path` holding `file`.
FsPut(f, path, file) ==
  [q \in (DOMAIN f) \cup {path} |-> IF q = path THEN file ELSE f[q]]

\* fs::rename(from, to): `to` takes the file of `from`, which is gone.
FsRename(f, from, to) ==
  [q \in ((DOMAIN f) \cup {to}) \ ({from} \ {to}) |->
     IF q = to THEN f[from] ELSE f[q]]

(***************************************************************************)
(* Inputs: the texts found on disk and the arguments of the calls          *)
(***************************************************************************)

TextPlain == "text/plain"

ImagePng == "image/png"

\* A MIME type with an empty subtype.
TextNoSubtype == "text/"

AppA == "a.desktop"

AppB == "b.desktop"

AppC == "c.desktop"

\* An application id whose file name holds the list separator.
AppSemi == "a;b.desktop"

\* XDG_CURRENT_DESKTOP
Gnome == "GNOME"

\* A user's file: a default and two additions for text/plain.
UserText ==
  "[Default Applications]\n"
    \o "text/plain=a.desktop\n"
    \o "\n"
    \o "[Added Associations]\n"
    \o "text/plain=a.desktop;b.desktop;\n"

\* A distribution's file: a default with a fallback, an addition list in
\* another order, and a removal.
SystemText ==
  "[Default Applications]\n"
    \o "text/plain=b.desktop;c.desktop\n"
    \o "image/png=c.desktop\n"
    \o "[Added Associations]\n"
    \o "text/plain=c.desktop;a.desktop;\n"
    \o "[Removed Associations]\n"
    \o "text/plain=a.desktop;\n"

\* A file edited by hand: a comment, CRLF line ends, spaces around '=' and a
\* blank piece in the list.
HandEditedText ==
  "# my defaults\r\n"
    \o "[Default Applications]\r\n"
    \o "text/plain = ;c.desktop\r\n"

\* A file that lists an id twice on one line, among the additions and among
\* the removals.
RepeatedText ==
  "[Added Associations]\n"
    \o "text/plain=b.desktop;a.desktop;b.desktop;\n"
    \o "[Removed Associations]\n"
    \o "text/plain=c.desktop;c.desktop;\n"

\* What a candidate path may hold at start.
FileInputs ==
  {TextFile(UserText), TextFile(SystemText), TextFile(HandEditedText),
   TextFile(RepeatedText), [readable |-> FALSE, text |-> ""]}

DesktopInputs == {"", Gnome}

MimeInputs == {TextPlain, TextNoSubtype}

AppIdInputs == {AppA, AppSemi, DesktopSuffix}

MimeListInputs == {<<ImagePng, TextPlain>>, <<ImagePng, TextNoSubtype, TextPlain>>}

\* The MIME types remove_default is called with.
RemoveInputs == {TextPlain}

\* The application ids set_default_for_mimes is called with.
BatchAppIdInputs == {AppB, DesktopSuffix}

\* At most this many association files exist at start.
MaxFiles == 2

\* At most this many mutating calls are made on the store.
MaxOps == 2

(***************************************************************************)
(* State                                                                   *)
(***************************************************************************)

VARIABLES
  desktop,   \* XDG_CURRENT_DESKTOP
  fs,        \* the files on disk: path -> [readable, text]
  dirs,      \* the directories on disk
  fs0,       \* the files on disk when the process started
  config,    \* the MimeAppsConfig
  pc,        \* "start", "idle", a step of save, or "crashed"
  content,   \* save's local `content`
  replaced,  \* what the write path held when the running save began
  last,      \* the last call that returned, with the store before it
  nops,      \* mutating calls made
  registry,  \* the AppRegistry, once AppRegistry::new has built it
  call,      \* a call of a function on its own: its name and arguments
  ret,       \* what that call returned
  stack      \* the MainWindow's stack: the page of each category

vars ==
  <<desktop, fs, dirs, fs0, config, pc, content, replaced, last, nops,
    registry, call, ret, stack>>

\* The candidate paths whatever the desktop is.
AllCandidates ==
  UNION {Elems(CandidatePaths(d)) : d \in DesktopInputs}

\* The file systems with at most `most` of `paths` existing, each holding one
\* of the files `inputs` gives for it, and the directories of each.
StartDisks(paths, inputs, most) ==
  UNION {
    {[f |-> f, d |-> {Parent(p) : p \in P} \cup home] :
       f \in {g \in [P -> UNION {inputs[p] : p \in P}] :
                \A p \in P : g[p] \in inputs[p]},
       home \in SUBSET {ConfigHome}} :
    P \in {Q \in SUBSET paths : Cardinality(Q) <= most}}

\* The state of a process that has not called load yet, on a given disk.
Start(disk) ==
  /\ fs = disk.f
  /\ dirs = disk.d
  /\ fs0 = fs
  /\ config = NewConfig
  /\ pc = "start"
  /\ content = ""
  /\ replaced = None
  /\ last = [op |-> "none"]
  /\ nops = 0

\* No registry has been built, and no function is called on its own.
NoRegistry == registry = None

NoCall == call = [op |-> "none"] /\ ret = None

\* No window has been built.
NoWindow == stack = None

\* The files of the user that the store is exercised on.
StorePaths == {DesktopFile(ConfigHome, ToLowercase(Gnome)), UserConfig}

StoreInputs ==
  [path \in StorePaths |->
     IF path = UserConfig
       THEN {TextFile(UserText), TextFile(HandEditedText)}
       ELSE {TextFile(SystemText), TextFile(RepeatedText)}]

Init ==
  /\ desktop \in DesktopInputs
  /\ \E disk \in StartDisks(StorePaths, StoreInputs, Cardinality(StorePaths)) :
       Start(disk)
  /\ NoRegistry
  /\ NoWindow
  /\ NoCall

(***************************************************************************)
(* Actions                                                                 *)
(***************************************************************************)

\* MimeAppsConfig::load()
DoLoad ==
  /\ pc = "start"
  /\ config' = Load(fs, desktop)
  /\ pc' = "idle"
  /\ last' = [op |-> "load", ok |-> TRUE, before |-> config]
  /\ UNCHANGED <<desktop, fs, dirs, fs0, content, replaced, nops>>
  /\ UNCHANGED <<registry, call, ret, stack>>

\* config.set_default(mime, app_id)
CallSetDefault ==
  /\ pc = "idle"
  /\ nops < MaxOps
  /\ \E mime \in MimeInputs, app_id \in AppIdInputs :
       LET r == SetDefault(config, mime, app_id)
       IN  /\ config' = r.config
           /\ last' = [op |-> "set_default", mime |-> mime, app_id |-> app_id,
                       ok |-> r.ok, before |-> config]
  /\ nops' = nops + 1
  /\ UNCHANGED <<desktop, fs, dirs, fs0, pc, content, replaced>>
  /\ UNCHANGED <<registry, call, ret, stack>>

\* config.remove_default(mime)
CallRemoveDefault ==
  /\ pc = "idle"
  /\ nops < MaxOps
  /\ \E mime \in RemoveInputs :
       /\ config' = RemoveDefault(config, mime)
       /\ last' = [op |-> "remove_default", mime |-> mime, ok |-> TRUE,
                   before |-> config]
  /\ nops' = nops + 1
  /\ UNCHANGED <<desktop, fs, dirs, fs0, pc, content, replaced>>
  /\ UNCHANGED <<registry, call, ret, stack>>

\* config.set_default_for_mimes(mimes, app_id)
CallSetDefaultForMimes ==
  /\ pc = "idle"
  /\ nops < MaxOps
  /\ \E mimes \in MimeListInputs, app_id \in BatchAppIdInputs :
       LET r == SetDefaultForMimes(config, mimes, app_id)
       IN  /\ config' = r.config
           /\ last' = [op |-> "set_default_for_mimes", mimes |-> mimes,
                       app_id |-> app_id, ok |-> r.ok, before |-> config]
  /\ nops' = nops + 1
  /\ UNCHANGED <<desktop, fs, dirs, fs0, pc, content, replaced>>
  /\ UNCHANGED <<registry, call, ret, stack>>

\* The file at a path, if any.
FileAt(f, path) == IF Exists(f, path) THEN Some(f[path]) ELSE None

\* save() returning Ok(()) from a step that failed.
SaveFailsSilently ==
  /\ pc' = "idle"
  /\ last' = [op |-> "save", ok |-> TRUE, at |-> pc, before |-> config]

\* save() returning Err from the step it is at.
SaveFails ==
  /\ pc' = "idle"
  /\ last' = [op |-> "save", ok |-> FALSE, at |-> pc, before |-> config]

\* save() is called: the text is built (lines 352-384).
SaveBegin ==
  /\ pc = "idle"
  /\ content' = SaveContent(config)
  /\ replaced' = FileAt(fs, config.path)
  /\ pc' = "create_dir"
  /\ UNCHANGED <<desktop, fs, dirs, fs0, config, last, nops>>
  /\ UNCHANGED <<registry, call, ret, stack>>

\* fs::create_dir_all(parent)
SaveCreateDir ==
  /\ pc = "create_dir"
  /\ \/ /\ dirs' = dirs \cup {Parent(config.path)}
        /\ pc' = "create"
        /\ UNCHANGED last
     \/ /\ SaveFails
        /\ UNCHANGED dirs
  /\ UNCHANGED <<desktop, fs, fs0, config, content, replaced, nops>>
  /\ UNCHANGED <<registry, call, ret, stack>>

\* fs::File::create(&temp_path): the temporary file, emptied if it exists.
SaveCreateTemp ==
  /\ pc = "create"
  /\ \/ /\ Parent(TempPath(config.path)) \in dirs
        /\ fs' = FsPut(fs, TempPath(config.path), TextFile(""))
        /\ pc' = "write"
        /\ UNCHANGED last
     \/ /\ SaveFails
        /\ UNCHANGED fs
  /\ UNCHANGED <<desktop, dirs, fs0, config, content, replaced, nops>>
  /\ UNCHANGED <<registry, call, ret, stack>>

\* file.write_all(content): the rest of the text, or a short write of the
\* first half followed by the rest or by an error.
SaveWrite ==
  /\ pc = "write"
  /\ LET temp  == TempPath(config.path)
         done  == Len(fs[temp].text)
         half  == Len(content) \div 2
     IN  \/ /\ fs' = FsPut(fs, temp, TextFile(content))
            /\ pc' = "sync"
            /\ UNCHANGED last
         \/ /\ done = 0
            /\ half > 0
            /\ fs' = FsPut(fs, temp, TextFile(SubSeq(content, 1, half)))
            /\ UNCHANGED <<pc, last>>
         \/ /\ SaveFails
            /\ UNCHANGED fs
  /\ UNCHANGED <<desktop, dirs, fs0, config, content, replaced, nops>>
  /\ UNCHANGED <<registry, call, ret, stack>>

\* file.sync_all()
SaveSync ==
  /\ pc = "sync"
  /\ \/ /\ pc' = "rename"
        /\ UNCHANGED last
     \/ SaveFails
  /\ UNCHANGED <<desktop, fs, dirs, fs0, config, content, replaced, nops>>
  /\ UNCHANGED <<registry, call, ret, stack>>

\* fs::rename(&temp_path, &self.path)
SaveRename ==
  /\ pc = "rename"
  /\ \/ /\ fs' = FsRename(fs, TempPath(config.path), config.path)
        /\ pc' = "renamed"
        /\ UNCHANGED last
     \/ /\ SaveFails
        /\ UNCHANGED fs
  /\ UNCHANGED <<desktop, dirs, fs0, config, content, replaced, nops>>
  /\ UNCHANGED <<registry, call, ret, stack>>

\* Ok(()) after the rename
SaveReturn ==
  /\ pc = "renamed"
  /\ pc' = "idle"
  /\ last' = [op |-> "save", ok |-> TRUE, at |-> pc, before |-> config]
  /\ UNCHANGED <<desktop, fs, dirs, fs0, config, content, replaced, nops>>
  /\ UNCHANGED <<registry, call, ret, stack>>

\* The steps of save before its rename, and all of them.
StepsBeforeRename == {"create_dir", "create", "write", "sync", "rename"}

SaveSteps == StepsBeforeRename \cup {"renamed"}

\* The process stops in the middle of save.
Crash ==
  /\ pc \in SaveSteps
  /\ pc' = "crashed"
  /\ last' = [op |-> "crash", ok |-> FALSE, at |-> pc, before |-> config]
  /\ UNCHANGED <<desktop, fs, dirs, fs0, config, content, replaced, nops>>
  /\ UNCHANGED <<registry, call, ret, stack>>

Next ==
  \/ DoLoad
  \/ CallSetDefault
  \/ CallSetDefaultForMimes
  \/ CallRemoveDefault
  \/ SaveBegin
  \/ SaveCreateDir
  \/ SaveCreateTemp
  \/ SaveWrite
  \/ SaveSync
  \/ SaveRename
  \/ SaveReturn
  \/ Crash

Spec == Init /\ [][Next]_vars

(***************************************************************************)
(* load alone, over every placement of the association files               *)
(***************************************************************************)

AnyInput == [path \in AllCandidates |-> FileInputs]

InitLoad ==
  /\ desktop \in DesktopInputs
  /\ \E disk \in StartDisks(AllCandidates, AnyInput, MaxFiles) : Start(disk)
  /\ NoRegistry
  /\ NoWindow
  /\ NoCall

NextLoad == DoLoad

SpecLoad == InitLoad /\ [][NextLoad]_vars

(***************************************************************************)
(* Properties of the store                                                 *)
(***************************************************************************)

\* The three mappings of a store or of a parsed record.
Mappings(c) ==
  [default_apps |-> c.default_apps,
   added_associations |-> c.added_associations,
   removed_associations |-> c.removed_associations]

\* The last call that returned was set_default, and it returned Ok / Err.
SetDefaultReturned(ok) == last.op = "set_default" /\ last.ok = ok

\* How often x occurs in v.
Count(v, x) == Cardinality({i \in 1..Len(v) : v[i] = x})

\* C1: after a successful set_default(mime, id), from whatever store the
\* earlier calls left, get_default(mime) is exactly id.
C1_SetThenGet ==
  SetDefaultReturned(TRUE) => GetDefault(config, last.mime) = Some(last.app_id)

\* C1's case: a set_default that replaced another configured default, after
\* an earlier mutation.
C1_Witness ==
  /\ SetDefaultReturned(TRUE)
  /\ nops = MaxOps
  /\ GetDefault(last.before, last.mime).some
  /\ GetDefault(last.before, last.mime) # Some(last.app_id)

\* C2: after a successful set_default(mime, id), default_apps[mime] is [id],
\* added_associations[mime] has id first and nowhere else, and the ids that
\* were listed before follow it in the order they had.
C2_SetDefaultShape ==
  SetDefaultReturned(TRUE) =>
    LET mime   == last.mime
        id     == last.app_id
        before == MapGetOrDefault(last.before.added_associations, mime)
        after  == config.added_associations[mime]
        rest   == Tail(after)
    IN  /\ config.default_apps[mime] = <<id>>
        /\ after[1] = id
        /\ \A i \in 2..Len(after) : after[i] # id
        /\ \A x \in (Elems(before) \cup Elems(rest)) \ {id} :
             Count(rest, x) = Count(before, x)
        /\ \A i, j \in 1..Len(rest) :
             i < j => \E a, b \in 1..Len(before) :
                        a < b /\ before[a] = rest[i] /\ before[b] = rest[j]

\* C2's case: the id was listed before, behind another id, and moved up.
C2_Witness ==
  /\ SetDefaultReturned(TRUE)
  /\ LET before == MapGetOrDefault(last.before.added_associations, last.mime)
     IN  /\ Len(before) >= 2
         /\ before[1] # last.app_id
         /\ VecContains(before, last.app_id)
  /\ GetDefault(last.before, last.mime) # Some(last.app_id)

\* C3: a set_default that fails validation leaves the three mappings as they
\* were.
C3_FailedSetDefaultChangesNothing ==
  SetDefaultReturned(FALSE) => Mappings(config) = Mappings(last.before)

\* C3's case: a well-formed MIME type with a malformed application id, on a
\* store that holds a default for it.
C3_Witness ==
  /\ SetDefaultReturned(FALSE)
  /\ ValidateMimeType(last.mime)
  /\ ~ValidateAppId(last.app_id)
  /\ GetDefault(last.before, last.mime).some

\* C4 (as claimed): after a successful set_default(mime, id),
\* get_associations(mime) lists id first.
C4_NewDefaultListedFirst ==
  SetDefaultReturned(TRUE) =>
    LET apps == GetAssociations(config, last.mime)
    IN  apps # <<>> /\ apps[1] = last.app_id

(***************************************************************************)
(* Properties of load and merge_from                                       *)
(***************************************************************************)

\* load has returned and nothing else has been called.
JustLoaded == pc = "idle" /\ last.op = "load"

\* The files load read, in priority order, with what each parsed to.
ReadPaths == ConfigPaths(fs, desktop)

ReadRecord(i) == ParseFile(fs, ReadPaths[i])

\* File i of ReadPaths parsed and has a default_apps entry for mime.
HasDefault(i, mime) ==
  ReadRecord(i).ok /\ mime \in DOMAIN ReadRecord(i).parsed.default_apps

\* The MIME types any of the read files has a default for.
MimesWithDefault ==
  {mime \in UNION {DOMAIN ReadRecord(i).parsed.default_apps : i \in 1..Len(ReadPaths)} :
     \E i \in 1..Len(ReadPaths) : HasDefault(i, mime)}

\* C5: after load, default_apps[mime] is the whole list of the
\* highest-priority file that has an entry for mime, whatever the files
\* below it hold, and there is no entry no file has.
C5_HighestPriorityDefaultWins ==
  JustLoaded =>
    /\ DOMAIN config.default_apps = MimesWithDefault
    /\ \A mime \in MimesWithDefault :
         LET top == CHOOSE i \in 1..Len(ReadPaths) :
                      HasDefault(i, mime) /\ \A j \in 1..(i - 1) : ~HasDefault(j, mime)
         IN  config.default_apps[mime] = ReadRecord(top).parsed.default_apps[mime]

\* C5's case: two files with different defaults for one MIME type, the
\* lower one's list longer than the winner's.
C5_Witness ==
  /\ JustLoaded
  /\ Len(ReadPaths) = 2
  /\ HasDefault(1, TextPlain)
  /\ HasDefault(2, TextPlain)
  /\ Len(ReadRecord(2).parsed.default_apps[TextPlain])
       > Len(ReadRecord(1).parsed.default_apps[TextPlain])
  /\ config.default_apps[TextPlain] # ReadRecord(2).parsed.default_apps[TextPlain]

\* The ids of each list of a mapping.
IdSets(m) == [mime \in DOMAIN m |-> Elems(m[mime])]

\* The union of two mappings' lists, per MIME type.
UnionOfLists(a, b) ==
  [mime \in (DOMAIN a) \cup (DOMAIN b) |->
     Elems(MapGetOrDefault(a, mime)) \cup Elems(MapGetOrDefault(b, mime))]

\* C6: for any two records A and B read from disk, merging A then B and
\* merging B then A give, per MIME type, the same set of added ids and the
\* same set of removed ids, the union of both lists; and when the two are
\* all load read, the store holds these sets.
C6_MergeOrderIndependent ==
  JustLoaded =>
    \A i, j \in 1..Len(ReadPaths) :
      (i < j /\ ReadRecord(i).ok /\ ReadRecord(j).ok) =>
        LET A  == ReadRecord(i).parsed
            B  == ReadRecord(j).parsed
            AB == MergeFrom(MergeFrom(NewConfig, A), B)
            BA == MergeFrom(MergeFrom(NewConfig, B), A)
        IN  /\ IdSets(AB.added_associations) = IdSets(BA.added_associations)
            /\ IdSets(AB.added_associations)
                 = UnionOfLists(A.added_associations, B.added_associations)
            /\ IdSets(AB.removed_associations) = IdSets(BA.removed_associations)
            /\ IdSets(AB.removed_associations)
                 = UnionOfLists(A.removed_associations, B.removed_associations)
            /\ Len(ReadPaths) = 2 =>
                 /\ config.added_associations = BA.added_associations
                 /\ IdSets(config.added_associations) = IdSets(AB.added_associations)
                 /\ IdSets(config.removed_associations)
                      = IdSets(AB.removed_associations)

\* C6's case: two files whose added lists for one MIME type differ, so that
\* the two merge orders store different lists.
C6_Witness ==
  /\ JustLoaded
  /\ Len(ReadPaths) = 2
  /\ ReadRecord(1).ok
  /\ ReadRecord(2).ok
  /\ LET A == ReadRecord(1).parsed
         B == ReadRecord(2).parsed
     IN  /\ TextPlain \in DOMAIN A.added_associations
         /\ TextPlain \in DOMAIN B.added_associations
         /\ MergeFrom(MergeFrom(NewConfig, A), B).added_associations
              # config.added_associations
         /\ DOMAIN A.removed_associations # DOMAIN B.removed_associations

(***************************************************************************)
(* Properties of save                                                      *)
(***************************************************************************)

\* save has returned Ok and nothing else has been called since.
SaveReturnedOk == pc = "idle" /\ last.op = "save" /\ last.ok

\* C7 (as claimed): after save() returns Ok, parsing the file at the write
\* path gives the three mappings of the store, keys and lists alike.
C7_SaveThenParseRoundTrip ==
  SaveReturnedOk =>
    /\ ParseFile(fs, config.path).ok
    /\ ParseFile(fs, config.path).parsed = Mappings(config)

\* C8: while save runs, and if the process stops at a step before the
\* rename, the write path holds what it held when save began; once the
\* rename is done it holds the whole new text; it never holds anything else.
C8_SaveAtomic ==
  /\ (pc \in StepsBeforeRename) => FileAt(fs, config.path) = replaced
  /\ (pc = "crashed" /\ last.at \in StepsBeforeRename) =>
       FileAt(fs, config.path) = replaced
  /\ (pc = "renamed" \/ (pc = "crashed" /\ last.at = "renamed") \/ SaveReturnedOk) =>
       FileAt(fs, config.path) = Some(TextFile(content))
  /\ (pc \in SaveSteps \cup {"crashed"}) =>
       FileAt(fs, config.path) \in {replaced, Some(TextFile(content))}

\* C8's case: the process stopped in the middle of write_all, part of the
\* new text in the temporary file, while the write path holds an older,
\* different text.
C8_Witness ==
  /\ pc = "crashed"
  /\ last.at = "write"
  /\ replaced.some
  /\ replaced # Some(TextFile(content))
  /\ Exists(fs, TempPath(config.path))
  /\ Len(fs[TempPath(config.path)].text) > 0
  /\ Len(fs[TempPath(config.path)].text) < Len(content)

\* The association files other than the generic user config.
OtherAssociationFiles == (AllCandidates \cup DOMAIN fs0) \ {UserConfig}

\* C9: whatever set_default and save calls are made, every association file
\* other than the generic user config is as it was when the process
\* started: not created, not changed, not removed.
C9_OnlyWritePathChanges ==
  \A path \in OtherAssociationFiles : FileAt(fs, path) = FileAt(fs0, path)

\* C9's case: load read a desktop-specific file, a default was set and save
\* replaced the generic user config.
C9_Witness ==
  /\ SaveReturnedOk
  /\ nops > 0
  /\ Len(ReadPaths) = 2
  /\ ReadPaths[1] # UserConfig
  /\ FileAt(fs, UserConfig) # FileAt(fs0, UserConfig)

(***************************************************************************)
(* Properties of get_associations                                          *)
(***************************************************************************)

\* The MIME types the stores of the model hold.
QueriedMimes == {TextPlain, ImagePng}

\* The index of the first x in v.
FirstIndex(v, x) == CHOOSE i \in 1..Len(v) : v[i] = x /\ \A j \in 1..(i - 1) : v[j] # x

\* C10: get_associations(mime) holds each id of the defaults and of the
\* additions that is not removed, once, in the order of its first place in
\* the defaults followed by the additions; no id twice, no removed id.
C10_AssociationsOrderAndFilter ==
  pc # "start" =>
    \A mime \in QueriedMimes :
      LET defaults == MapGetOrDefault(config.default_apps, mime)
          added    == MapGetOrDefault(config.added_associations, mime)
          removed  == Elems(MapGetOrDefault(config.removed_associations, mime))
          listed   == defaults \o added
          apps     == GetAssociations(config, mime)
      IN  /\ Elems(apps) = Elems(listed) \ removed
          /\ \A i, j \in 1..Len(apps) :
               i < j => /\ apps[i] # apps[j]
                        /\ FirstIndex(listed, apps[i]) < FirstIndex(listed, apps[j])

\* C10's case: a store whose default is among the removed ids, with an
\* addition that is also a default and one that is listed.
C10_Witness ==
  /\ pc = "idle"
  /\ nops > 0
  /\ LET defaults == MapGetOrDefault(config.default_apps, TextPlain)
         added    == MapGetOrDefault(config.added_associations, TextPlain)
         removed  == MapGetOrDefault(config.removed_associations, TextPlain)
     IN  /\ defaults # <<>>
         /\ VecContains(removed, defaults[1])
         /\ VecContains(added, defaults[1])
         /\ Len(GetAssociations(config, TextPlain)) >= 2

(***************************************************************************)
(* Properties of set_default_for_mimes                                     *)
(***************************************************************************)

\* The last call that returned was set_default_for_mimes, with Ok / Err.
SetDefaultForMimesReturned(ok) ==
  last.op = "set_default_for_mimes" /\ last.ok = ok

\* What a store holds for one MIME type in each of its three mappings.
EntriesFor(c, mime) ==
  [m \in {"default_apps", "added_associations", "removed_associations"} |->
     IF mime \in DOMAIN c[m] THEN Some(c[m][mime]) ELSE None]

\* The place in mimes of the first MIME type set_default refuses with
\* app_id, one past the end when it refuses none.
FirstRefused(mimes, app_id) ==
  LET refused == {i \in 1..Len(mimes) :
                    ~ValidateMimeType(mimes[i]) \/ ~ValidateAppId(app_id)}
  IN  IF refused = {} THEN Len(mimes) + 1
      ELSE CHOOSE i \in refused : \A j \in refused : i <= j

\* C11: set_default_for_mimes(mimes, id) fails exactly when set_default
\* refuses one of the MIME types; with the k-th the first refused, the
\* k-1 MIME types before it have id as their default and the k-th and every
\* later one (that is not also among the first k-1) are as before the call.
C11_BatchStopsAtFirstFailure ==
  last.op = "set_default_for_mimes" =>
    LET mimes == last.mimes
        k     == FirstRefused(mimes, last.app_id)
        done  == {mimes[i] : i \in 1..(k - 1)}
    IN  /\ last.ok = (k > Len(mimes))
        /\ \A mime \in done : GetDefault(config, mime) = Some(last.app_id)
        /\ \A i \in k..Len(mimes) :
             mimes[i] \notin done =>
               EntriesFor(config, mimes[i]) = EntriesFor(last.before, mimes[i])

\* C11's case: the call failed at its second MIME type; the first got the
\* new default, and the third, valid and with another default configured,
\* kept it.
C11_Witness ==
  /\ SetDefaultForMimesReturned(FALSE)
  /\ FirstRefused(last.mimes, last.app_id) = 2
  /\ Len(last.mimes) = 3
  /\ ValidateMimeType(last.mimes[3])
  /\ GetDefault(last.before, last.mimes[1]) # Some(last.app_id)
  /\ GetDefault(config, last.mimes[3]).some
  /\ GetDefault(config, last.mimes[3]) # Some(last.app_id)

(***************************************************************************)
(* The two validations on their own, over many strings                     *)
(***************************************************************************)

\* Strings are tried up to this length (application ids: the part before
\* the suffix).
MaxLen == 3

RECURSIVE StringsUpTo(_, _)
\* The strings over an alphabet of length n at most.
StringsUpTo(alphabet, n) ==
  IF n = 0 THEN {""}
  ELSE LET shorter == StringsUpTo(alphabet, n - 1)
       IN  shorter \cup {s \o c : s \in shorter, c \in alphabet}

\* The strings of the unit tests and of the spec's examples.
MimeAccepted ==
  {"text/plain", "application/x-desktop", "x-scheme-handler/http", "image/svg+xml"}

MimeRejected == {"invalid", "/subtype", "type/", "", "audio/*", "a/b/c", "text//plain"}

ValidateMimeInputs ==
  StringsUpTo({"a", "Z", "7", "-", "/", "_"}, MaxLen) \cup MimeAccepted \cup MimeRejected

AppIdAccepted == {"firefox.desktop", "org.mozilla.Firefox.desktop"}

AppIdRejected == {"firefox", ".desktop", ""}

ValidateAppIdInputs ==
  {p \o t : p \in StringsUpTo({"a", "."}, MaxLen),
            t \in {"", ".desktop", ".deskto", ".desktop ", ".Desktop", "desktop"}}
    \cup AppIdAccepted \cup AppIdRejected

\* The store and the disk of a process that only calls a function.
StoreUnused == desktop = "" /\ Start([f |-> <<>>, d |-> {}])

InitValidate ==
  /\ StoreUnused
  /\ NoRegistry
  /\ NoWindow
  /\ ret = None
  /\ \/ \E mime \in ValidateMimeInputs :
          call = [op |-> "validate_mime_type", mime |-> mime]
     \/ \E app_id \in ValidateAppIdInputs :
          call = [op |-> "validate_app_id", app_id |-> app_id]

\* MimeAppsConfig::validate_mime_type(mime).is_ok()
CallValidateMimeType ==
  /\ call.op = "validate_mime_type"
  /\ ~ret.some
  /\ ret' = Some(ValidateMimeType(call.mime))
  /\ UNCHANGED <<desktop, fs, dirs, fs0, config, pc, content, replaced, last,
                 nops, registry, call, stack>>

\* MimeAppsConfig::validate_app_id(app_id).is_ok()
CallValidateAppId ==
  /\ call.op = "validate_app_id"
  /\ ~ret.some
  /\ ret' = Some(ValidateAppId(call.app_id))
  /\ UNCHANGED <<desktop, fs, dirs, fs0, config, pc, content, replaced, last,
                 nops, registry, call, stack>>

NextValidate == CallValidateMimeType \/ CallValidateAppId

SpecValidate == InitValidate /\ [][NextValidate]_vars

\* The characters a MIME type's parts may hold.
MimeChars ==
  {"a","b","c","d","e","f","g","h","i","j","k","l","m","n","o","p","q","r",
   "s","t","u","v","w","x","y","z",
   "A","B","C","D","E","F","G","H","I","J","K","L","M","N","O","P","Q","R",
   "S","T","U","V","W","X","Y","Z",
   "0","1","2","3","4","5","6","7","8","9","-",".","+"}

\* s has exactly one '/', something before it and something after it, and
\* nothing but MimeChars around it.
OneSlashBetweenTwoNames(s) ==
  /\ Cardinality({i \in 1..Len(s) : Char(s, i) = "/"}) = 1
  /\ Char(s, 1) # "/"
  /\ Char(s, Len(s)) # "/"
  /\ \A i \in 1..Len(s) : Char(s, i) \in MimeChars \cup {"/"}

\* C12: validate_mime_type accepts a string exactly when it has exactly one
\* '/', non-empty parts before and after it, and only ASCII alphanumerics,
\* '-', '.' and '+' in both; it accepts the three examples and rejects "",
\* "invalid", "/subtype", "type/" and strings with two slashes.
C12_MimeTypeAcceptedIffWellFormed ==
  (call.op = "validate_mime_type" /\ ret.some) =>
    /\ ret.value = OneSlashBetweenTwoNames(call.mime)
    /\ call.mime \in MimeAccepted => ret.value
    /\ call.mime \in MimeRejected => ~ret.value

\* C12's case: a string with two slashes and well-formed parts was refused.
C12_Witness ==
  /\ call.op = "validate_mime_type"
  /\ ret = Some(FALSE)
  /\ call.mime = "a/b/c"

\* C13: validate_app_id accepts a string exactly when it is ".desktop"
\* after at least one character; it rejects "firefox", ".desktop" and "" and
\* accepts "firefox.desktop" and "org.mozilla.Firefox.desktop".
C13_AppIdAcceptedIffNamedDesktopFile ==
  (call.op = "validate_app_id" /\ ret.some) =>
    /\ ret.value = (\E n \in 1..Len(call.app_id) :
                      call.app_id = SubSeq(call.app_id, 1, n) \o ".desktop")
    /\ call.app_id \in AppIdAccepted => ret.value
    /\ call.app_id \in AppIdRejected => ~ret.value

\* C13's case: the suffix alone was refused.
C13_Witness ==
  /\ call.op = "validate_app_id"
  /\ ret = Some(FALSE)
  /\ call.app_id = ".desktop"

(***************************************************************************)
(* AppEntry::get_localized (src/desktop/entry.rs)                          *)
(***************************************************************************)

\* str::split_once(char): what is before and after the first c, if any.
SplitOnce(s, c) ==
  LET i == Find(s, c)
  IN  IF i = 0 THEN None
      ELSE Some(<<SubSeq(s, 1, i - 1), SubSeq(s, i + 1, Len(s))>>)

\* format!("{}[{}]", key, locale)
LocalizedKey(key, locale) == key \o "[" \o locale \o "]"

\* values.get(k).cloned()
Get(values, k) == IF k \in DOMAIN values THEN Some(values[k]) ELSE None

\* The first of the options that is Some, None when none is.
FirstSome(options) ==
  LET hits == {i \in 1..Len(options) : options[i].some}
  IN  IF hits = {} THEN None
      ELSE options[CHOOSE i \in hits : \A j \in hits : i <= j]

\* One turn of get_localized's loop: the value the locale finds, if any.
TryLocale(values, key, locale) ==
  LET exact    == Get(values, LocalizedKey(key, locale))
      modifier == SplitOnce(locale, "@")
  IN  IF exact.some THEN exact
      ELSE IF modifier.some
        THEN LET base_locale == modifier.value[1]
                 base        == Get(values, LocalizedKey(key, base_locale))
                 country     == SplitOnce(base_locale, "_")
             IN  IF base.some THEN base
                 ELSE IF country.some
                   THEN Get(values, LocalizedKey(key, country.value[1]))
                   ELSE None
        ELSE LET country == SplitOnce(locale, "_")
             IN  IF country.some
                   THEN Get(values, LocalizedKey(key, country.value[1]))
                   ELSE None

\* get_localized trying one fallback after the other over all the locales:
\* the exact keys of all of them first, then the keys without modifier, then
\* the language keys.
GetLocalizedTierByTier(values, key, locales) ==
  LET base(l) == IF SplitOnce(l, "@").some THEN SplitOnce(l, "@").value[1] ELSE l
      lang(l) == IF SplitOnce(base(l), "_").some
                   THEN SplitOnce(base(l), "_").value[1]
                   ELSE base(l)
      found == FirstSome(
                 [i \in 1..Len(locales) |-> Get(values, LocalizedKey(key, locales[i]))]
                 \o [i \in 1..Len(locales) |->
                       Get(values, LocalizedKey(key, base(locales[i])))]
                 \o [i \in 1..Len(locales) |->
                       Get(values, LocalizedKey(key, lang(locales[i])))])
  IN  IF found.some THEN found ELSE Get(values, key)

\* get_localized: the first locale that finds a value decides; the
\* unbracketed key otherwise.
GetLocalized(values, key, locales) ==
  LET found == FirstSome([i \in 1..Len(locales) |-> TryLocale(values, key, locales[i])])
  IN  IF found.some THEN found ELSE Get(values, key)

\* The keys of a descriptor that get_localized is tried on, each with a
\* value that tells the key.
NameKey == "Name"

NameValues ==
  [k \in {"Name", "Name[sr_RS@latin]", "Name[sr@latin]", "Name[sr_RS]",
          "Name[sr]", "Name[en]"} |->
     IF k = "Name" THEN "Generic"
     ELSE IF k = "Name[sr@latin]" THEN "Naziv"
     ELSE "Naziv in " \o k]

\* The descriptors: each set of these keys.
ValuesInputs ==
  {[k \in K |-> NameValues[k]] : K \in SUBSET DOMAIN NameValues}

\* The locales a preference list is made of.
LocaleInputs == {"sr_RS@latin", "sr@latin", "sr_RS", "en_US", "en"}

\* A preference list holds this many locales at most.
MaxLocales == 2

\* The preference lists.
LocaleListInputs ==
  UNION {[1..n -> LocaleInputs] : n \in 0..MaxLocales}

InitLocalized ==
  /\ StoreUnused
  /\ NoRegistry
  /\ NoWindow
  /\ ret = None
  /\ \E values \in ValuesInputs, locales \in LocaleListInputs :
       call = [op |-> "get_localized", values |-> values, key |-> NameKey,
               locales |-> locales]

\* AppEntry::get_localized(values, key, locales)
CallGetLocalized ==
  /\ call.op = "get_localized"
  /\ ~ret.some
  /\ ret' = Some(GetLocalized(call.values, call.key, call.locales))
  /\ UNCHANGED <<desktop, fs, dirs, fs0, config, pc, content, replaced, last,
                 nops, registry, call, stack>>

NextLocalized == CallGetLocalized

SpecLocalized == InitLocalized /\ [][NextLocalized]_vars

\* get_localized has returned.
GetLocalizedReturned == call.op = "get_localized" /\ ret.some

\* C18 (as claimed): with the preferences ["sr_RS@latin", "en"], a
\* Name[sr@latin] key and an unbracketed Name key, get_localized returns the
\* value of Name[sr@latin].
C18_LanguageWithModifierFound ==
  (/\ GetLocalizedReturned
   /\ call.locales = <<"sr_RS@latin", "en">>
   /\ DOMAIN call.values = {"Name", "Name[sr@latin]"}) =>
    ret.value = Some(call.values["Name[sr@latin]"])

\* A locale without its modifier, and its language alone.
WithoutModifier(locale) ==
  IF Contains(locale, "@") THEN SubSeq(locale, 1, Find(locale, "@") - 1) ELSE locale

LanguageOnly(locale) ==
  LET base == WithoutModifier(locale)
  IN  IF Contains(base, "_") THEN SubSeq(base, 1, Find(base, "_") - 1) ELSE base

\* The bracketed keys in the order the claim tries them: for each preference
\* in turn the exact key, the key without modifier, the language key.
KeysInOrder(key, locales) ==
  [n \in 1..(3 * Len(locales)) |->
     LET locale == locales[(n + 2) \div 3]
         tier   == (n + 2) % 3
     IN  LocalizedKey(key,
           IF tier = 0 THEN locale
           ELSE IF tier = 1 THEN WithoutModifier(locale)
           ELSE LanguageOnly(locale))]

\* C19: get_localized returns the value of the first key of KeysInOrder the
\* descriptor holds, so that any fallback of an earlier preference wins over
\* an exact hit of a later one; the unbracketed value when it holds none of
\* them; nothing when the unbracketed key is absent too.
C19_PreferenceByPreference ==
  GetLocalizedReturned =>
    LET values == call.values
        keys   == KeysInOrder(call.key, call.locales)
        hits   == {n \in 1..Len(keys) : keys[n] \in DOMAIN values}
    IN  IF hits # {}
          THEN ret.value = Some(values[keys[CHOOSE n \in hits : \A m \in hits : n <= m]])
          ELSE IF call.key \in DOMAIN values
            THEN ret.value = Some(values[call.key])
            ELSE ret.value = None

\* C19's case: the first preference hit by its language fallback only, while
\* the second preference has its exact key in the descriptor.
C19_Witness ==
  /\ GetLocalizedReturned
  /\ call.locales = <<"sr_RS@latin", "en">>
  /\ DOMAIN call.values = {"Name", "Name[sr]", "Name[en]"}
  /\ ret.value = Some(call.values["Name[sr]"])

(***************************************************************************)
(* AppEntry::parse (src/desktop/entry.rs)                                  *)
(***************************************************************************)

DesktopEntryHeader == "[Desktop Entry]"

\* One line of a descriptor: whether the [Desktop Entry] section is open, and
\* the values read so far (a key given again replaces the earlier value).
DesktopLine(line, st) ==
  LET trimmed == Trim(line)
      pair    == SplitOnce(trimmed, "=")
  IN  IF trimmed = "" \/ StartsWith(trimmed, "#") THEN st
      ELSE IF StartsWith(trimmed, "[")
        THEN [st EXCEPT !.in_desktop_entry = (trimmed = DesktopEntryHeader)]
      ELSE IF ~st.in_desktop_entry THEN st
      ELSE IF pair.some
        THEN [st EXCEPT !.values =
                MapInsert(st.values, Trim(pair.value[1]), Trim(pair.value[2]))]
      ELSE st

RECURSIVE DesktopLines(_, _)
\* for line in content.lines() { .. }
DesktopLines(lines, st) ==
  IF lines = <<>> THEN st
  ELSE DesktopLines(Tail(lines), DesktopLine(Head(lines), st))

\* The values of the [Desktop Entry] section of a text.
DesktopValues(text) ==
  DesktopLines(Lines(text), [in_desktop_entry |-> FALSE, values |-> EmptyMap]).values

\* values.get(key).map(|v| v == "true").unwrap_or(false)
Flag(values, key) == key \in DOMAIN values /\ values[key] = "true"

\* A list value: split on ';', the empty pieces dropped, each piece trimmed.
ListValue(values, key) ==
  IF key \in DOMAIN values
    THEN TrimEach(DropEmpty(Split(values[key], ";")))
    ELSE <<>>

\* The entry parse builds once it has decided not to skip the descriptor.
Entry(values, path, name, locales) ==
  [id           |-> FileName(path),
   name         |-> name,
   generic_name |-> GetLocalized(values, "GenericName", locales),
   comment      |-> GetLocalized(values, "Comment", locales),
   icon         |-> Get(values, "Icon"),
   exec         |-> Get(values, "Exec"),
   terminal     |-> Flag(values, "Terminal"),
   no_display   |-> Flag(values, "NoDisplay"),
   hidden       |-> Flag(values, "Hidden"),
   mime_types   |-> ListValue(values, "MimeType"),
   categories   |-> ListValue(values, "Categories"),
   path         |-> path]

\* parse without the return at lines 84-86.
ParseKeepingHidden(text, path, locales) ==
  LET values == DesktopValues(text)
      name   == GetLocalized(values, "Name", locales)
  IN  IF Get(values, "Type") # Some("Application") THEN None
      ELSE IF ~name.some THEN None
      ELSE Some(Entry(values, path, name.value, locales))

\* AppEntry::parse: None for a descriptor that is not an application, has no
\* name, or is hidden or not displayed.
Parse(text, path, locales) ==
  LET values == DesktopValues(text)
      name   == GetLocalized(values, "Name", locales)
  IN  IF Get(values, "Type") # Some("Application") THEN None
      ELSE IF ~name.some THEN None
      ELSE IF Flag(values, "NoDisplay") \/ Flag(values, "Hidden") THEN None
      ELSE Some(Entry(values, path, name.value, locales))

\* AppEntry::from_path: None for a file that cannot be read.
FromPath(f, path, locales) ==
  IF ~f[path].readable THEN None ELSE Parse(f[path].text, path, locales)

(***************************************************************************)
(* AppRegistry (src/desktop/discovery.rs)                                  *)
(***************************************************************************)

\* The environment get_locales reads.
LocaleEnv ==
  [LANGUAGE |-> None, LC_ALL |-> None,
   LC_MESSAGES |-> Some("en_US.UTF-8"), LANG |-> Some("en_US.UTF-8")]

\* The encoding taken out of a locale, its modifier kept.
StripEncoding(locale) ==
  LET modifier == SplitOnce(locale, "@")
  IN  IF modifier.some
        THEN Split(modifier.value[1], ".")[1] \o "@" \o modifier.value[2]
        ELSE Split(locale, ".")[1]

RECURSIVE PushLocales(_, _)
\* The loop over LC_ALL, LC_MESSAGES, LANG: each locale that is set, not
\* empty, not C or POSIX and not listed yet.
PushLocales(locales, settings) ==
  IF settings = <<>> THEN locales
  ELSE LET locale == IF Head(settings).some
                       THEN StripEncoding(Head(settings).value)
                       ELSE ""
       IN  IF /\ Head(settings).some
              /\ locale # ""
              /\ locale # "C"
              /\ locale # "POSIX"
              /\ ~VecContains(locales, locale)
             THEN PushLocales(Append(locales, locale), Tail(settings))
             ELSE PushLocales(locales, Tail(settings))

\* get_locales()
GetLocales(env) ==
  PushLocales(IF env.LANGUAGE.some
                THEN DropEmpty(Split(env.LANGUAGE.value, ":"))
                ELSE <<>>,
              <<env.LC_ALL, env.LC_MESSAGES, env.LANG>>)

Applications == "applications"

\* get_application_dirs(): the user's directory first, then the system ones.
ApplicationDirs ==
  <<PathJoin(DataHome, Applications)>>
    \o [i \in 1..Len(DropEmpty(DataDirs)) |->
          PathJoin(DropEmpty(DataDirs)[i], Applications)]

\* Path::extension: what follows the last '.' of the file name, when there is
\* one past its first character.
Extension(path) ==
  LET name == FileName(path)
      dot  == RFind(name, ".")
  IN  IF dot > 1 THEN Some(SubSeq(name, dot + 1, Len(name))) ELSE None

\* The registry before any directory is scanned.
EmptyRegistry == [apps |-> EmptyMap, by_mime |-> EmptyMap, by_category |-> EmptyMap]

RECURSIVE PushUnder(_, _, _)
\* for key in keys { index.entry(key).or_default().push(id) }
PushUnder(index, keys, id) ==
  IF keys = <<>> THEN index
  ELSE PushUnder(MapInsert(index, Head(keys),
                           Append(MapGetOrDefault(index, Head(keys)), id)),
                 Tail(keys), id)

\* The categories of an entry as index_app keys them.
LowercaseEach(list) == [i \in 1..Len(list) |-> ToLowercase(list[i])]

\* index_app without the check at lines 66-68: a later descriptor replaces
\* the one indexed before.
IndexAppLastWins(reg, app) ==
  [apps        |-> MapInsert(reg.apps, app.id, app),
   by_mime     |-> PushUnder(reg.by_mime, app.mime_types, app.id),
   by_category |-> PushUnder(reg.by_category, LowercaseEach(app.categories), app.id)]

\* index_app
IndexApp(reg, app) ==
  IF app.id \in DOMAIN reg.apps THEN reg
  ELSE [apps        |-> MapInsert(reg.apps, app.id, app),
        by_mime     |-> PushUnder(reg.by_mime, app.mime_types, app.id),
        by_category |-> PushUnder(reg.by_category, LowercaseEach(app.categories),
                                  app.id)]

RECURSIVE ScanEntries(_, _, _, _)
\* The loop of scan_directory over the entries read_dir gave, in its order.
ScanEntries(reg, entries, f, locales) ==
  IF entries = <<>> THEN reg
  ELSE LET path == Head(entries)
           app  == FromPath(f, path, locales)
       IN  IF Extension(path) # Some("desktop")
             THEN ScanEntries(reg, Tail(entries), f, locales)
           ELSE IF app.some
             THEN ScanEntries(IndexApp(reg, app.value), Tail(entries), f, locales)
           ELSE ScanEntries(reg, Tail(entries), f, locales)

\* The orders in which the members of a set can be listed.
Orders(S) ==
  {o \in [1..Cardinality(S) -> S] : \A x \in S : \E n \in 1..Cardinality(S) : o[n] = x}

\* fs::read_dir(dir): the files of the directory in an order the file system
\* chooses; nothing for a directory that cannot be read.
ReadDir(f, d, dir) ==
  IF dir \in d THEN Orders({path \in DOMAIN f : Parent(path) = dir}) ELSE {<<>>}

RECURSIVE ScanDirectories(_, _, _, _)
\* for dir in app_dirs { registry.scan_directory(&dir, &locales) }, listing[n]
\* being what read_dir gave for the n-th of the directories left.
ScanDirectories(reg, listing, f, locales) ==
  IF listing = <<>> THEN reg
  ELSE ScanDirectories(ScanEntries(reg, Head(listing), f, locales),
                       Tail(listing), f, locales)

\* The listings read_dir can give for the application directories.
Listings(f, d) ==
  {l \in [1..Len(ApplicationDirs) ->
            UNION {ReadDir(f, d, ApplicationDirs[n]) : n \in 1..Len(ApplicationDirs)}] :
     \A n \in 1..Len(ApplicationDirs) : l[n] \in ReadDir(f, d, ApplicationDirs[n])}

\* get_app
GetApp(reg, id) == Get(reg.apps, id)

\* ids.iter().filter_map(|id| self.apps.get(id)).collect()
EntriesOf(reg, ids) ==
  LET known == SelectSeq(ids, LAMBDA id : id \in DOMAIN reg.apps)
  IN  [n \in 1..Len(known) |-> reg.apps[known[n]]]

\* apps_for_mime without its second pass.
AppsForMimeExactOnly(reg, mime) ==
  EntriesOf(reg, PushMissing(<<>>, MapGetOrDefault(reg.by_mime, mime)))

\* apps_for_mime: the ids under the MIME type, then those under its
\* "<type>/*", each id once.
AppsForMime(reg, mime) ==
  LET direct  == PushMissing(<<>>, MapGetOrDefault(reg.by_mime, mime))
      slash   == SplitOnce(mime, "/")
      pattern == slash.value[1] \o "/*"
  IN  EntriesOf(reg,
        IF slash.some
          THEN PushMissing(direct, MapGetOrDefault(reg.by_mime, pattern))
          ELSE direct)

\* apps_for_category
AppsForCategory(reg, category) ==
  EntriesOf(reg, MapGetOrDefault(reg.by_category, ToLowercase(category)))

\* AppCategory::all()
AllCategories ==
  <<"WebBrowser", "EmailClient", "FileManager", "TerminalEmulator", "TextEditor",
    "MusicPlayer", "VideoPlayer", "ImageViewer", "DocumentViewer",
    "ArchiveManager", "Calculator", "Calendar", "WordProcessor", "Spreadsheet">>

\* AppCategory::primary_mime_types
PrimaryMimeTypes(category) ==
  CASE category = "WebBrowser" ->
         <<"x-scheme-handler/http", "x-scheme-handler/https", "text/html",
           "application/xhtml+xml">>
    [] category = "EmailClient" ->
         <<"x-scheme-handler/mailto", "application/x-extension-eml",
           "message/rfc822">>
    [] category = "FileManager" -> <<"inode/directory">>
    [] category = "TerminalEmulator" -> <<>>
    [] category = "TextEditor" -> <<"text/plain">>
    [] category = "MusicPlayer" ->
         <<"audio/mpeg", "audio/mp3", "audio/ogg", "audio/flac", "audio/x-wav",
           "audio/x-vorbis+ogg">>
    [] category = "VideoPlayer" ->
         <<"video/mp4", "video/x-matroska", "video/webm", "video/mpeg",
           "video/x-msvideo", "video/quicktime">>
    [] category = "ImageViewer" ->
         <<"image/png", "image/jpeg", "image/gif", "image/webp", "image/bmp",
           "image/svg+xml">>
    [] category = "DocumentViewer" ->
         <<"application/pdf", "application/postscript", "application/x-bzpdf",
           "application/x-gzpdf">>
    [] category = "ArchiveManager" ->
         <<"application/zip", "application/x-tar", "application/gzip",
           "application/x-gzip", "application/x-bzip2", "application/x-xz",
           "application/x-7z-compressed", "application/vnd.rar",
           "application/x-rar">>
    [] category = "Calculator" -> <<>>
    [] category = "Calendar" -> <<"text/calendar", "application/x-extension-ics">>
    [] category = "WordProcessor" ->
         <<"application/msword",
           "application/vnd.openxmlformats-officedocument.wordprocessingml.document",
           "application/vnd.oasis.opendocument.text", "application/rtf">>
    [] category = "Spreadsheet" ->
         <<"application/vnd.ms-excel",
           "application/vnd.openxmlformats-officedocument.spreadsheetml.sheet",
           "application/vnd.oasis.opendocument.spreadsheet", "text/csv">>

\* AppCategory::desktop_categories
DesktopCategories(category) ==
  CASE category = "Calculator" -> <<"Calculator">>
    [] category = "Calendar" -> <<"Calendar">>
    [] category = "TerminalEmulator" -> <<"TerminalEmulator">>
    [] category = "WebBrowser" -> <<"WebBrowser">>
    [] category = "EmailClient" -> <<"Email">>
    [] category = "FileManager" -> <<"FileManager">>
    [] category = "TextEditor" -> <<"TextEditor">>
    [] category = "MusicPlayer" -> <<"Audio", "Music", "Player">>
    [] category = "VideoPlayer" -> <<"Video", "AudioVideo">>
    [] category = "ImageViewer" -> <<"Viewer", "Graphics">>
    [] category = "DocumentViewer" -> <<"Viewer", "Office">>
    [] category = "ArchiveManager" -> <<"Archiving", "Compression">>
    [] category = "WordProcessor" -> <<"WordProcessor", "Office">>
    [] category = "Spreadsheet" -> <<"Spreadsheet", "Office">>

RECURSIVE PushUnseen(_, _)
\* for app in found { if seen.insert(&app.id) { apps.push(app) } }
PushUnseen(apps, found) ==
  IF found = <<>> THEN apps
  ELSE IF \E n \in 1..Len(apps) : apps[n].id = Head(found).id
    THEN PushUnseen(apps, Tail(found))
  ELSE PushUnseen(Append(apps, Head(found)), Tail(found))

RECURSIVE CollectByMime(_, _, _)
\* The first loop of apps_for_app_category.
CollectByMime(reg, apps, mimes) ==
  IF mimes = <<>> THEN apps
  ELSE CollectByMime(reg, PushUnseen(apps, AppsForMime(reg, Head(mimes))), Tail(mimes))

RECURSIVE CollectByCategory(_, _, _)
\* The second loop of apps_for_app_category.
CollectByCategory(reg, apps, cats) ==
  IF cats = <<>> THEN apps
  ELSE CollectByCategory(reg, PushUnseen(apps, AppsForCategory(reg, Head(cats))),
                         Tail(cats))

\* a.cmp(b) != Greater, for str
StrLessEq(a, b) == a = b \/ StrLess(a, b)

RECURSIVE SortByKey(_)
\* sort_by on a key: a stable sort of [key, app] pairs, each pair put behind
\* the pairs before it that are not greater.
SortByKey(pairs) ==
  IF pairs = <<>> THEN <<>>
  ELSE LET front  == SortByKey(SubSeq(pairs, 1, Len(pairs) - 1))
           pair   == pairs[Len(pairs)]
           behind == Cardinality({n \in 1..Len(front) :
                                    StrLessEq(front[n].key, pair.key)})
       IN  SubSeq(front, 1, behind) \o <<pair>> \o SubSeq(front, behind + 1, Len(front))

\* apps.sort_by(|a, b| a.name.to_lowercase().cmp(&b.name.to_lowercase()))
SortByLowercaseName(apps) ==
  LET sorted == SortByKey([n \in 1..Len(apps) |->
                             [key |-> ToLowercase(apps[n].name), app |-> apps[n]]])
  IN  [n \in 1..Len(sorted) |-> sorted[n].app]

\* apps.sort_by(|a, b| a.name.cmp(&b.name))
SortByName(apps) ==
  LET sorted == SortByKey([n \in 1..Len(apps) |-> [key |-> apps[n].name, app |-> apps[n]]])
  IN  [n \in 1..Len(sorted) |-> sorted[n].app]

\* apps_for_app_category
AppsForAppCategory(reg, category) ==
  SortByLowercaseName(
    CollectByCategory(reg,
                      CollectByMime(reg, <<>>, PrimaryMimeTypes(category)),
                      DesktopCategories(category)))

\* str::contains(&str)
ContainsStr(s, q) ==
  \E n \in 1..(Len(s) - Len(q) + 1) : SubSeq(s, n, n + Len(q) - 1) = q

\* The filter of search.
Matches(app, query) ==
  \/ ContainsStr(ToLowercase(app.name), query)
  \/ app.generic_name.some /\ ContainsStr(ToLowercase(app.generic_name.value), query)
  \/ app.comment.some /\ ContainsStr(ToLowercase(app.comment.value), query)

\* search: self.apps.values() comes in an order the HashMap chooses, so the
\* results search can give are the sorted forms of every order.
Search(reg, query) ==
  {SortByName(o) :
     o \in Orders({reg.apps[id] : id \in {x \in DOMAIN reg.apps :
                                            Matches(reg.apps[x], ToLowercase(query))}})}

\* all_apps, in the same way.
AllApps(reg) ==
  {SortByName(o) : o \in Orders({reg.apps[id] : id \in DOMAIN reg.apps})}

(***************************************************************************)
(* AppRegistry::new over the descriptors of up to MaxApps files            *)
(***************************************************************************)

\* A player: a MIME type and a category given twice, a wildcard next to the
\* MIME type it covers.
PlayerText ==
  "[Desktop Entry]\n"
    \o "Type=Application\n"
    \o "Name=Player\n"
    \o "MimeType=audio/mpeg;audio/*;audio/mpeg;\n"
    \o "Categories=Audio;audio;Player;\n"

\* Another player whose name differs in case only, with the wildcard alone.
LowercasePlayerText ==
  "[Desktop Entry]\n"
    \o "Type=Application\n"
    \o "Name=player\n"
    \o "GenericName=Music box\n"
    \o "MimeType=audio/*;\n"
    \o "Categories=Music;\n"

\* A descriptor with a localized name, and a Hidden key in another section.
AmpText ==
  "# an amplifier\n"
    \o "[Desktop Entry]\n"
    \o "Type=Application\n"
    \o "Name=Amp\n"
    \o "Name[en]=Amplifier\n"
    \o "Comment=Plays music\n"
    \o "MimeType=video/mp4;audio/mpeg\n"
    \o "Categories=AudioVideo;\n"
    \o "[Desktop Action quiet]\n"
    \o "Name=Quiet\n"
    \o "Hidden=true\n"

HiddenText ==
  "[Desktop Entry]\n"
    \o "Type=Application\n"
    \o "Name=Ghost\n"
    \o "Comment=Plays music\n"
    \o "Hidden=true\n"
    \o "MimeType=audio/mpeg;\n"
    \o "Categories=Audio;\n"

NoDisplayText ==
  "[Desktop Entry]\r\n"
    \o "Type=Application\r\n"
    \o "Name=Shade\r\n"
    \o "NoDisplay = true\r\n"
    \o "MimeType=audio/*;video/mp4;\r\n"
    \o "Categories=Video;Music;\r\n"

\* A descriptor that gives Hidden twice, true and then false.
ShownAgainText ==
  "[Desktop Entry]\n"
    \o "Type=Application\n"
    \o "Name=Echo\n"
    \o "Hidden=true\n"
    \o "Hidden=false\n"
    \o "MimeType=audio/mpeg;\n"

DescriptorTexts ==
  {PlayerText, LowercasePlayerText, AmpText, HiddenText, NoDisplayText,
   ShownAgainText}

\* The paths a descriptor may be at: two file names in each application
\* directory, and a file that is not a .desktop file.
AppPaths ==
  {PathJoin(ApplicationDirs[n], name) :
     n \in 1..Len(ApplicationDirs), name \in {AppA, AppB}}
    \cup {PathJoin(ApplicationDirs[1], "a.txt")}

\* What each of them may hold.
AppInputs ==
  [path \in AppPaths |->
     IF Extension(path) = Some("desktop")
       THEN {TextFile(text) : text \in DescriptorTexts}
              \cup {[readable |-> FALSE, text |-> ""]}
       ELSE {TextFile(PlayerText)}]

\* At most this many files exist in the application directories.
MaxApps == 2

InitRegistry ==
  /\ desktop = ""
  /\ \E disk \in StartDisks(AppPaths, AppInputs, MaxApps) : Start(disk)
  /\ ConfigHome \notin dirs
  /\ NoRegistry
  /\ NoWindow
  /\ NoCall

\* AppRegistry::new()
NewRegistry ==
  /\ registry = None
  /\ \E listing \in Listings(fs, dirs) :
       registry' = Some(ScanDirectories(EmptyRegistry, listing, fs,
                                        GetLocales(LocaleEnv)))
  /\ UNCHANGED <<desktop, fs, dirs, fs0, config, pc, content, replaced, last,
                 nops, call, ret, stack>>

NextRegistry == NewRegistry

SpecRegistry == InitRegistry /\ [][NextRegistry]_vars

(***************************************************************************)
(* Properties of the registry                                              *)
(***************************************************************************)

\* AppRegistry::new has returned.
Built == registry.some

\* What the queries of the properties are called with.
QueriedIds == {AppA, AppB, "a.txt"}

QueriedRegistryMimes == {"audio/mpeg", "video/mp4", "audio/*", "audio", "text/plain"}

QueriedCategories == {"Audio", "Music", "Player", "Video", "AudioVideo", "audio"}

QueriedTexts == {"", "play", "Music", "ghost"}

\* The descriptor a path holds, when it is a .desktop file that parses.
DescriptorAt(path) ==
  IF path \in DOMAIN fs /\ Extension(path) = Some("desktop")
    THEN FromPath(fs, path, GetLocales(LocaleEnv))
    ELSE None

\* The descriptor named id of the n-th application directory, and of the
\* first directory that has one.
DescriptorIn(n, id) == DescriptorAt(PathJoin(ApplicationDirs[n], id))

FirstDescriptor(id) ==
  FirstSome([n \in 1..Len(ApplicationDirs) |-> DescriptorIn(n, id)])

\* C14: get_app(id) is the descriptor of the first scanned directory that
\* holds a parsed descriptor named id (none when no directory does), and id
\* stands in the by_mime and by_category buckets as often as that
\* descriptor declares the bucket's key, whatever later descriptors declare.
C14_FirstSeenWins ==
  Built =>
    \A id \in QueriedIds \cup DOMAIN registry.value.apps :
      LET first == FirstDescriptor(id)
          mimes == IF first.some THEN first.value.mime_types ELSE <<>>
          cats  == IF first.some THEN LowercaseEach(first.value.categories) ELSE <<>>
      IN  /\ GetApp(registry.value, id) = first
          /\ \A mime \in DOMAIN registry.value.by_mime \cup Elems(mimes) :
               Count(MapGetOrDefault(registry.value.by_mime, mime), id)
                 = Count(mimes, mime)
          /\ \A cat \in DOMAIN registry.value.by_category \cup Elems(cats) :
               Count(MapGetOrDefault(registry.value.by_category, cat), id)
                 = Count(cats, cat)

\* C14's case: two directories hold parsed descriptors of one id with
\* different names and different MIME types.
C14_Witness ==
  /\ Built
  /\ \E id \in QueriedIds : \E n, m \in 1..Len(ApplicationDirs) :
       /\ n < m
       /\ DescriptorIn(n, id).some
       /\ DescriptorIn(m, id).some
       /\ DescriptorIn(n, id).value.name # DescriptorIn(m, id).value.name
       /\ Elems(DescriptorIn(m, id).value.mime_types)
            \ Elems(DescriptorIn(n, id).value.mime_types) # {}
       /\ GetApp(registry.value, id) = DescriptorIn(n, id)

\* C15 (as claimed): no bucket of by_mime and no bucket of by_category holds
\* an id twice.
C15_NoIdTwiceInABucket ==
  Built =>
    /\ \A mime \in DOMAIN registry.value.by_mime :
         \A id \in Elems(registry.value.by_mime[mime]) :
           Count(registry.value.by_mime[mime], id) = 1
    /\ \A cat \in DOMAIN registry.value.by_category :
         \A id \in Elems(registry.value.by_category[cat]) :
           Count(registry.value.by_category[cat], id) = 1

\* The ids of a list of entries.
IdsOf(apps) == [n \in 1..Len(apps) |-> apps[n].id]

\* C16: apps_for_mime(mime) returns the registry's entries of the ids under
\* mime followed by those under "<type>/*", each id once, at its first
\* place; an entry declaring "audio/*" alone is returned for audio/mpeg and
\* not for video/mp4.
C16_ExactThenWildcard ==
  Built =>
    /\ \A mime \in QueriedRegistryMimes :
         LET apps   == AppsForMime(registry.value, mime)
             ids    == IdsOf(apps)
             exact  == MapGetOrDefault(registry.value.by_mime, mime)
             wild   == IF Contains(mime, "/")
                         THEN MapGetOrDefault(registry.value.by_mime,
                                SubSeq(mime, 1, Find(mime, "/")) \o "*")
                         ELSE <<>>
             listed == exact \o wild
         IN  /\ Elems(ids) = Elems(listed)
             /\ \A n \in 1..Len(apps) : apps[n] = registry.value.apps[ids[n]]
             /\ \A n, m \in 1..Len(ids) :
                  n < m => /\ ids[n] # ids[m]
                           /\ FirstIndex(listed, ids[n]) < FirstIndex(listed, ids[m])
    /\ \A id \in DOMAIN registry.value.apps :
         registry.value.apps[id].mime_types = <<"audio/*">> =>
           /\ VecContains(IdsOf(AppsForMime(registry.value, "audio/mpeg")), id)
           /\ ~VecContains(IdsOf(AppsForMime(registry.value, "video/mp4")), id)

\* C16's case: audio/mpeg is asked for with one entry declaring it together
\* with audio/*, and another declaring audio/* alone.
C16_Witness ==
  /\ Built
  /\ LET apps == AppsForMime(registry.value, "audio/mpeg")
     IN  /\ Len(apps) = 2
         /\ VecContains(apps[1].mime_types, "audio/mpeg")
         /\ VecContains(apps[1].mime_types, "audio/*")
         /\ apps[2].mime_types = <<"audio/*">>
         /\ AppsForMime(registry.value, "video/mp4") = <<>>

\* Line n of a descriptor assigns key in the [Desktop Entry] section: the
\* nearest section header above it is [Desktop Entry].
Assigns(lines, n, key) ==
  LET line    == Trim(lines[n])
      headers == {h \in 1..(n - 1) : StartsWith(Trim(lines[h]), "[")}
  IN  /\ ~StartsWith(line, "#")
      /\ ~StartsWith(line, "[")
      /\ Contains(line, "=")
      /\ Trim(SubSeq(line, 1, Find(line, "=") - 1)) = key
      /\ headers # {}
      /\ Trim(lines[CHOOSE h \in headers : \A g \in headers : g <= h])
           = "[Desktop Entry]"

\* The [Desktop Entry] section of a text gives key the value true (where a
\* key is given more than once, its last value is the one it has).
SetTrue(text, key) ==
  LET lines == Lines(text)
      at    == {n \in 1..Len(lines) : Assigns(lines, n, key)}
      final == Trim(lines[CHOOSE n \in at : \A m \in at : m <= n])
  IN  at # {} /\ Trim(SubSeq(final, Find(final, "=") + 1, Len(final))) = "true"

\* The files whose descriptor says Hidden=true or NoDisplay=true.
HiddenPaths ==
  {path \in DOMAIN fs :
     /\ fs[path].readable
     /\ SetTrue(fs[path].text, "Hidden") \/ SetTrue(fs[path].text, "NoDisplay")}

\* The entries the queries of the registry return.
Returned ==
  UNION {
    {GetApp(registry.value, id).value :
       id \in {x \in QueriedIds : GetApp(registry.value, x).some}},
    UNION {Elems(AppsForMime(registry.value, mime)) : mime \in QueriedRegistryMimes},
    UNION {Elems(AppsForCategory(registry.value, cat)) : cat \in QueriedCategories},
    UNION {Elems(AppsForAppCategory(registry.value, cat)) : cat \in Elems(AllCategories)},
    UNION {UNION {Elems(found) : found \in Search(registry.value, query)} :
             query \in QueriedTexts},
    UNION {Elems(found) : found \in AllApps(registry.value)}}

\* C17: the descriptor of a file that sets Hidden or NoDisplay to true in its
\* [Desktop Entry] section is returned by no query of the registry, in
\* whatever directory it is and whatever the other directories hold.
C17_HiddenNeverReturned ==
  Built => \A app \in Returned : app.path \notin HiddenPaths

\* C17's case: a hidden descriptor in the user's directory and a descriptor
\* of the same id, not hidden, in a system directory; the queries return
\* that other one.
C17_Witness ==
  /\ Built
  /\ \E hidden \in HiddenPaths : \E app \in Returned :
       /\ app.id = FileName(hidden)
       /\ app.path # hidden
       /\ hidden = PathJoin(ApplicationDirs[1], app.id)

\* C20 (as claimed): apps_for_app_category returns each hit of its MIME types
\* and categories once, by ascending lowercase name, entries whose lowercase
\* names are equal by ascending id.
C20_SortedByNameThenId ==
  Built =>
    \A cat \in Elems(AllCategories) :
      LET apps == AppsForAppCategory(registry.value, cat)
          hits == UNION ({Elems(AppsForMime(registry.value, PrimaryMimeTypes(cat)[n])) :
                            n \in 1..Len(PrimaryMimeTypes(cat))}
                         \cup {Elems(AppsForCategory(registry.value,
                                                     DesktopCategories(cat)[n])) :
                                 n \in 1..Len(DesktopCategories(cat))})
      IN  /\ Elems(apps) = hits
          /\ \A n, m \in 1..Len(apps) :
               n < m =>
                 \/ StrLess(ToLowercase(apps[n].name), ToLowercase(apps[m].name))
                 \/ /\ ToLowercase(apps[n].name) = ToLowercase(apps[m].name)
                    /\ StrLess(apps[n].id, apps[m].id)

(***************************************************************************)
(* Properties of a save that fails                                         *)
(***************************************************************************)

\* save has returned and nothing else has been called since.
SaveReturned == pc = "idle" /\ last.op = "save"

\* C23: save returns Ok only from behind its rename, an error from the step
\* that failed otherwise, and after an error the write path holds what it
\* held when save was called.
C23_FailedSaveReportedAndHarmless ==
  SaveReturned =>
    /\ last.ok <=> (last.at = "renamed")
    /\ ~last.ok => FileAt(fs, config.path) = replaced

\* C23's case: the rename failed with the whole new text in the temporary
\* file, and the write path still holds an older, different text.
C23_Witness ==
  /\ SaveReturned
  /\ ~last.ok
  /\ last.at = "rename"
  /\ replaced.some
  /\ replaced # Some(TextFile(content))
  /\ FileAt(fs, TempPath(config.path)) = Some(TextFile(content))
  /\ FileAt(fs, config.path) = replaced

\* C27 (as claimed): when save, called after a successful
\* set_default(mime, id), has renamed its file into place, a fresh load over
\* the files on disk gives id as the default of mime.
C27_SavedDefaultSurvivesRestart ==
  (pc = "renamed" /\ SetDefaultReturned(TRUE)) =>
    GetDefault(Load(fs, desktop), last.mime) = Some(last.app_id)

(***************************************************************************)
(* Properties of the added and removed lists                               *)
(***************************************************************************)

\* No id is at two places of v.
NoIdTwice(v) == \A i, j \in 1..Len(v) : i # j => v[i] # v[j]

\* A list of the mapping m of a file load read holds an id twice.
ReadTwice(m) ==
  \E i \in 1..Len(ReadPaths) :
    \E mime \in DOMAIN ReadRecord(i).parsed[m] :
      ~NoIdTwice(ReadRecord(i).parsed[m][mime])

\* C28: after load and after each call that follows it, no list of
\* added_associations or removed_associations holds an id twice.
C28_NoDuplicateAssociations ==
  pc # "start" =>
    /\ \A mime \in DOMAIN config.added_associations :
         NoIdTwice(config.added_associations[mime])
    /\ \A mime \in DOMAIN config.removed_associations :
         NoIdTwice(config.removed_associations[mime])

\* C28's case: a file that was read gives an id twice on a line of each
\* section, and a set_default has since moved an id of such a list.
C28_Witness ==
  /\ pc = "idle"
  /\ fs = fs0
  /\ ReadTwice("added_associations")
  /\ ReadTwice("removed_associations")
  /\ SetDefaultReturned(TRUE)
  /\ Len(MapGetOrDefault(last.before.added_associations, last.mime)) >= 2
  /\ VecContains(MapGetOrDefault(last.before.added_associations, last.mime),
                 last.app_id)

(***************************************************************************)
(* Properties of parse_file and of load over files that cannot be read     *)
(***************************************************************************)

\* The ids a parsed record or a store holds, in any list of its mappings.
StoredIds(c) ==
  UNION {UNION {Elems(c[m][mime]) : mime \in DOMAIN c[m]} :
           m \in {"default_apps", "added_associations", "removed_associations"}}

\* C21 (as claimed): every id parse_file stores is trimmed and not empty, a
\* value with no non-empty piece after trimming adds no entry, and so
\* get_default returns no empty id after load.
C21_StoredIdsTrimmedNonEmpty ==
  JustLoaded =>
    /\ \A i \in 1..Len(ReadPaths) :
         \A id \in StoredIds(ReadRecord(i).parsed) : id # "" /\ Trim(id) = id
    /\ \A mime \in QueriedMimes : GetDefault(config, mime) # Some("")

RECURSIVE MergeReadable(_, _, _)
\* The records of the readable files of `paths` merged one by one into
\* `merged`, from the last path to the first.
MergeReadable(f, paths, merged) ==
  IF paths = <<>> THEN merged
  ELSE MergeReadable(f, SubSeq(paths, 1, Len(paths) - 1),
                     MergeFrom(merged, ParseText(f[paths[Len(paths)]].text)))

\* The candidate files that exist and can be read, in priority order.
ReadablePaths ==
  SelectSeq(CandidatePaths(desktop),
            LAMBDA p : Exists(fs, p) /\ fs[p].readable)

\* C22: load returns Ok, and its store is the merge of the files that exist
\* and can be read, in their priority order; a file that is missing or
\* cannot be read adds nothing and stops nothing.
C22_UnreadableFilesSkipped ==
  JustLoaded =>
    /\ last.ok
    /\ config = MergeReadable(fs, ReadablePaths, NewConfig)

\* C22's case: of two files found, the lower-priority one (merged first)
\* cannot be read, and the store holds the defaults of the other.
C22_Witness ==
  /\ JustLoaded
  /\ Len(ReadPaths) = 2
  /\ ~ReadRecord(2).ok
  /\ ReadRecord(1).ok
  /\ ReadRecord(1).parsed.default_apps # EmptyMap
  /\ config.default_apps = ReadRecord(1).parsed.default_apps

(***************************************************************************)
(* CategoryPage (src/ui/category_page.rs) and MainWindow (src/window.rs)   *)
(***************************************************************************)

\* The borrow state of the RefCell around the store: flag is 0 when nothing
\* borrows it, n > 0 under n shared borrows and -1 under an exclusive one.
Unused == [flag |-> 0, panicked |-> FALSE]

\* The cell after borrow(), borrow_mut(), or the drop of a Ref or a RefMut.
RefCellStep(cell, event) ==
  IF cell.panicked THEN cell
  ELSE IF event = "borrow"
    THEN IF cell.flag >= 0 THEN [cell EXCEPT !.flag = @ + 1]
         ELSE [cell EXCEPT !.panicked = TRUE]
  ELSE IF event = "borrow_mut"
    THEN IF cell.flag = 0 THEN [cell EXCEPT !.flag = -1]
         ELSE [cell EXCEPT !.panicked = TRUE]
  ELSE IF event = "drop_ref" THEN [cell EXCEPT !.flag = @ - 1]
  ELSE [cell EXCEPT !.flag = 0]

RECURSIVE RunBorrows(_, _)
\* The cell after a sequence of events.
RunBorrows(cell, events) ==
  IF events = <<>> THEN cell
  ELSE RunBorrows(RefCellStep(cell, Head(events)), Tail(events))

\* CategoryPage::get_current_default: the installed application that is the
\* default of the first primary MIME type that has one.
GetCurrentDefault(category, reg, c) ==
  LET mimes == PrimaryMimeTypes(category)
  IN  FirstSome([n \in 1..Len(mimes) |->
                   IF GetDefault(c, mimes[n]).some
                     THEN GetApp(reg, GetDefault(c, mimes[n]).value)
                     ELSE None])

\* create_available_apps_section: current_default
FirstPrimaryDefault(category, c) ==
  IF PrimaryMimeTypes(category) = <<>> THEN None
  ELSE GetDefault(c, PrimaryMimeTypes(category)[1])

\* create_available_apps_section: a row per application of the category; the
\* row of the current default has a checkmark and no button.
AvailableRows(category, reg, c) ==
  LET apps == AppsForAppCategory(reg, category)
  IN  [n \in 1..Len(apps) |->
         [app_id     |-> apps[n].id,
          is_current |-> FirstPrimaryDefault(category, c) = Some(apps[n].id)]]

\* CategoryPage::new: what the page shows, and the callback its buttons run
\* after a change.
CategoryPageNew(category, reg, c, on_default_changed) ==
  [category           |-> category,
   current_app        |-> GetCurrentDefault(category, reg, c),
   rows               |-> AvailableRows(category, reg, c),
   on_default_changed |-> on_default_changed]

\* The borrows of CategoryPage::new, each a temporary of one statement.
PageNewBorrows(category) ==
  <<"borrow", "drop_ref", "borrow", "drop_ref">>
    \o (IF Len(PrimaryMimeTypes(category)) > 1
          THEN <<"borrow", "drop_ref">>
          ELSE <<>>)

\* The borrows of the callback a page was given: the one of
\* create_page_for_category builds a page, the one of a rebuilt page does
\* nothing.
OnChangedBorrows(on_default_changed, category) ==
  IF on_default_changed = "rebuild" THEN PageNewBorrows(category) ELSE <<>>

\* The set-default handler calling on_changed() with its RefMut alive.
SetDefaultBorrowsHeld(ok, on_default_changed, category) ==
  <<"borrow_mut">>
    \o (IF ok THEN OnChangedBorrows(on_default_changed, category) ELSE <<>>)
    \o <<"drop_mut">>

\* The borrows of the set-default handler: the RefMut is dropped by the
\* return after a refused set_default, and by drop(config) before
\* on_changed() otherwise.
SetDefaultBorrows(ok, on_default_changed, category) ==
  IF ~ok THEN <<"borrow_mut", "drop_mut">>
  ELSE <<"borrow_mut", "drop_mut">>
         \o OnChangedBorrows(on_default_changed, category)

RECURSIVE SetDefaultEach(_, _, _)
\* for mime in category_clone.primary_mime_types(): set_default, the handler
\* returning at the first Err.
SetDefaultEach(c, mimes, app_id) ==
  IF mimes = <<>> THEN [ok |-> TRUE, config |-> c]
  ELSE LET r == SetDefault(c, Head(mimes), app_id)
       IN  IF r.ok THEN SetDefaultEach(r.config, Tail(mimes), app_id)
           ELSE [ok |-> FALSE, config |-> r.config]

\* The ways a whole save() can go on a disk: an error at one of its steps
\* with what the step left behind, or Ok with the file renamed in place.
SaveOutcomes(c, f, d) ==
  LET text    == SaveContent(c)
      temp    == TempPath(c.path)
      made    == d \cup {Parent(c.path)}
      empty   == FsPut(f, temp, TextFile(""))
      half    == FsPut(f, temp, TextFile(SubSeq(text, 1, Len(text) \div 2)))
      written == FsPut(f, temp, TextFile(text))
  IN  {[ok |-> FALSE, at |-> "create_dir", fs |-> f, dirs |-> d],
       [ok |-> FALSE, at |-> "create", fs |-> f, dirs |-> made],
       [ok |-> FALSE, at |-> "write", fs |-> empty, dirs |-> made],
       [ok |-> FALSE, at |-> "write", fs |-> half, dirs |-> made],
       [ok |-> FALSE, at |-> "sync", fs |-> written, dirs |-> made],
       [ok |-> FALSE, at |-> "rename", fs |-> written, dirs |-> made],
       [ok |-> TRUE, at |-> "renamed", fs |-> FsRename(written, temp, c.path),
        dirs |-> made]}

(***************************************************************************)
(* The window: startup, then clicks on the "Set as Default" buttons        *)
(***************************************************************************)

EditorText ==
  "[Desktop Entry]\n"
    \o "Type=Application\n"
    \o "Name=Editor\n"
    \o "MimeType=text/plain;\n"
    \o "Categories=Utility;TextEditor;\n"

\* A terminal emulator: a category and no MIME type.
TerminalText ==
  "[Desktop Entry]\n"
    \o "Type=Application\n"
    \o "Name=Terminal\n"
    \o "Categories=System;TerminalEmulator;\n"

BrowserText ==
  "[Desktop Entry]\n"
    \o "Type=Application\n"
    \o "Name=Browser\n"
    \o "MimeType=x-scheme-handler/http;x-scheme-handler/https;\n"
    \o "Categories=Network;WebBrowser;\n"

\* A user's file with a default for the second MIME type of the browsers
\* and none for the first, and a default that may not be installed.
HttpsOnlyText ==
  "[Default Applications]\n"
    \o "x-scheme-handler/https=b.desktop\n"
    \o "text/plain=c.desktop\n"

\* Two descriptors in the user's application directory, and the user's
\* association file.
WindowPaths ==
  {PathJoin(ApplicationDirs[1], AppA), PathJoin(ApplicationDirs[1], AppB),
   UserConfig}

WindowInputs ==
  [path \in WindowPaths |->
     IF path = UserConfig THEN {TextFile(HttpsOnlyText)}
     ELSE {TextFile(EditorText), TextFile(TerminalText), TextFile(BrowserText)}]

InitWindow ==
  /\ desktop = ""
  /\ \E disk \in StartDisks(WindowPaths, WindowInputs, Cardinality(WindowPaths)) :
       Start(disk)
  /\ NoRegistry
  /\ NoWindow
  /\ NoCall

\* MainWindow::new: the registry is built, the store loaded, and a page made
\* for each category with the rebuilding callback.
MainWindowNew ==
  /\ pc = "start"
  /\ \E listing \in Listings(fs, dirs) :
       LET reg    == ScanDirectories(EmptyRegistry, listing, fs,
                                     GetLocales(LocaleEnv))
           loaded == Load(fs, desktop)
       IN  /\ registry' = Some(reg)
           /\ config' = loaded
           /\ stack' = [category \in Elems(AllCategories) |->
                          Some(CategoryPageNew(category, reg, loaded, "rebuild"))]
           /\ last' = [op |-> "new", ok |-> TRUE, before |-> config]
  /\ pc' = "idle"
  /\ UNCHANGED <<desktop, fs, dirs, fs0, content, replaced, nops, call, ret>>

\* A click on the "Set as Default" button of a row: the handler connected in
\* create_available_apps_section, with the save() and the on_changed() it
\* calls.
SetDefaultClicked ==
  /\ pc = "idle"
  /\ registry.some
  /\ \E category \in Elems(AllCategories) :
       /\ stack[category].some
       /\ \E n \in 1..Len(stack[category].value.rows) :
            LET page   == stack[category].value
                app_id == page.rows[n].app_id
                r      == SetDefaultEach(config, PrimaryMimeTypes(category), app_id)
                cell   == RunBorrows(Unused,
                                     SetDefaultBorrows(r.ok, page.on_default_changed,
                                                       category))
                record == [op |-> "clicked", category |-> category,
                           app_id |-> app_id,
                           on_default_changed |-> page.on_default_changed,
                           flag |-> cell.flag, before |-> config,
                           file |-> FileAt(fs, config.path)]
            IN  /\ ~page.rows[n].is_current
                /\ config' = r.config
                /\ IF ~r.ok
                     THEN /\ last' = [record EXCEPT !.op = "clicked"] @@
                                       [logged |-> "set_default"]
                          /\ UNCHANGED <<fs, dirs, stack, pc>>
                     ELSE \E s \in SaveOutcomes(r.config, fs, dirs) :
                            /\ fs' = s.fs
                            /\ dirs' = s.dirs
                            /\ last' = record @@
                                         [logged |-> IF s.ok THEN "none" ELSE "save"]
                            /\ pc' = IF cell.panicked THEN "panicked" ELSE "idle"
                            /\ stack' =
                                 IF page.on_default_changed # "rebuild" THEN stack
                                 ELSE IF cell.panicked
                                   THEN [stack EXCEPT ![category] = None]
                                 ELSE [stack EXCEPT ![category] =
                                         Some(CategoryPageNew(category, registry.value,
                                                              r.config, "nothing"))]
  /\ UNCHANGED <<desktop, fs0, content, replaced, nops, registry, call, ret>>

NextWindow == MainWindowNew \/ SetDefaultClicked

SpecWindow == InitWindow /\ [][NextWindow]_vars

(***************************************************************************)
(* Properties of the category pages                                        *)
(***************************************************************************)

\* The set-default handler was the last to run; with Saved, it logged no
\* error: every set_default and the save returned Ok.
Clicked == last.op = "clicked"

Saved == Clicked /\ last.logged = "none"

\* What a page displays: the current default and the rows with their marks.
Displayed(page) == [current_app |-> page.current_app, rows |-> page.rows]

\* C24 (as claimed): after every set-default action that changed and saved
\* the store, the first on a page or a later one, the page of the category
\* displays what a page built from the store displays.
C24_PageRebuiltAfterEveryAction ==
  Saved =>
    /\ stack[last.category].some
    /\ Displayed(stack[last.category].value)
         = Displayed(CategoryPageNew(last.category, registry.value, config,
                                     "nothing"))

\* C25 (as claimed): after a set-default action for an application listed
\* on the page of a category that logged no error, get_current_default of
\* the category is that application, also in a category with no primary
\* MIME type.
C25_ChosenBecomesCurrentDefault ==
  Saved =>
    GetCurrentDefault(last.category, registry.value, config)
      = GetApp(registry.value, last.app_id)

\* C26: no sequence of clicks ends in a borrow panic, and each handler
\* leaves the cell of the store unborrowed.
C26_NoBorrowPanic ==
  /\ pc # "panicked"
  /\ Clicked => last.flag = 0

\* C26's case: a handler whose save failed went on to rebuild the page of a
\* category with several MIME types, which borrows the store three times.
C26_Witness ==
  /\ Clicked
  /\ last.logged = "save"
  /\ last.on_default_changed = "rebuild"
  /\ Len(PrimaryMimeTypes(last.category)) > 1
  /\ stack[last.category] =
       Some(CategoryPageNew(last.category, registry.value, config, "nothing"))

\* The store that the file at the write path alone gives.
OnDisk(f, path) == MergeFrom(NewConfig, ParseFile(f, path).parsed)

\* C29 (as claimed): at the end of a set-default action the store and the
\* file at the write path hold, for each primary MIME type of the category,
\* both the chosen application or both what they held before; and the page
\* shows no current default that the file does not hold.
C29_StoreAndFileAgree ==
  Clicked =>
    /\ \A n \in 1..Len(PrimaryMimeTypes(last.category)) :
         LET mime   == PrimaryMimeTypes(last.category)[n]
             memory == GetDefault(config, mime)
             disk   == GetDefault(OnDisk(fs, config.path), mime)
             before == IF last.file.some
                         THEN GetDefault(MergeFrom(NewConfig,
                                                   ParseText(last.file.value.text)),
                                         mime)
                         ELSE None
         IN  \/ memory = Some(last.app_id) /\ disk = Some(last.app_id)
             \/ memory = GetDefault(last.before, mime) /\ disk = before
    /\ LET page == stack[last.category]
       IN  (page.some /\ page.value.current_app.some) =>
             \E n \in 1..Len(PrimaryMimeTypes(last.category)) :
               GetDefault(OnDisk(fs, config.path),
                          PrimaryMimeTypes(last.category)[n])
                 = Some(page.value.current_app.value.id)

\* The id of the row marked as current on a page, if any.
MarkedRow(page) ==
  FirstSome([n \in 1..Len(page.rows) |->
               IF page.rows[n].is_current THEN Some(page.rows[n].app_id)
               ELSE None])

\* The id of the application in the "Current Default" section, if any.
CurrentDefaultShown(page) ==
  IF page.current_app.some THEN Some(page.current_app.value.id) ELSE None

\* C30 (as claimed): on every page the application of the "Current Default"
\* section and the row marked as current are the same application, or there
\* is neither.
C30_CurrentDefaultIsMarkedRow ==
  pc = "idle" =>
    \A category \in Elems(AllCategories) :
      stack[category].some =>
        CurrentDefaultShown(stack[category].value) = MarkedRow(stack[category].value)


=============================================================================
